---- MODULE Spec2Model ----
(***************************************************************************)
(* A model of the automation core of chgpt-api: the retry-safe wrapper     *)
(* (ChatGPTDriver.safe_element_operation), the completion check            *)
(* (ChatGPTDriver._is_response_complete), smart chunking, the exchange     *)
(* (ChatGPTDriver.send_message), the service / API boundary, the send      *)
(* strategy, concurrent requests on the event loop, the session operations *)
(* and the exception details of send_message.                              *)
(*                                                                         *)
(* Each component is a state machine over its own variables; a component   *)
(* that a specification does not run stays at pc "off".                    *)
(***************************************************************************)
EXTENDS Integers, Sequences, FiniteSets, TLC

VARIABLES
    \* ---- safe_element_operation, run on a stub operation ----
    w_pc,            \* "off" | "loop" | "sleep" | "returned" | "raised"
    max_retries,     \* the max_retries argument
    script,          \* the stub operation: outcome of its n-th invocation
    value,           \* the value the stub returns when it succeeds
    attempt,         \* the loop index of `for attempt in range(max_retries + 1)`
    calls,           \* number of invocations of operation() so far
    sleeps,          \* number of time.sleep(retry_delay) so far
    last_exception,  \* the local last_exception (None or an exception object)
    w_out,           \* what the wrapper returned or raised
    \* ---- _is_response_complete ----
    c_pc,            \* "off" | "stop_check" | "stream_check" | "sample" | "done"
    c_response_text, \* the response_text argument
    c_driver_ok,     \* self.selenium_wrapper is set, so .driver can be read
    ui_stop_active,  \* the document: a stop button is displayed and enabled
    ui_streaming,    \* the document: a streaming / busy indicator is displayed
    stop_probe,      \* what step 1 observed: "none" | "active" | "inactive" | "error"
    stream_probe,    \* what step 2 observed: "none" | "active" | "inactive" | "error"
    initial_text,    \* the local initial_text
    stable_count,    \* the local stable_count
    c_i,             \* the loop index i of the stability loop
    samples,         \* what response_element.text gave at each sample so far
    c_result,        \* the return value: "none" | "True" | "False"
    \* ---- _send_message_with_smart_chunking ----
    k_pc,            \* "off" | "split" | "send" | "wait" | "done" | "raised"
    message,         \* the message argument, a sequence of characters
    chunks,          \* the local chunks, each with the boundary it starts at
    k_i,             \* the loop index i of `for i, chunk in enumerate(chunks)`
    written,         \* the arguments of input_element.send_keys so far, in order
    k_waits,         \* how each _wait_for_stop_button_disappear so far ended
    \* ---- ChatGPTService.create_chat_completion behind the API route ----
    h_pc,            \* "off" | "session_check" | "init_session" | "dispatch" | "api" | "done"
    request,         \* the request: functions/tools present, stream, a message to send
    selenium_wrapper,\* ChatGPTDriver.selenium_wrapper: "None" | "wrapper"
    wait,            \* ChatGPTDriver.wait: "None" | "wait"
    session_active,  \* ChatGPTDriver._session_active
    wrapper_driver,  \* SeleniumWrapper.driver: "None" | "session" | "no_session"
    start_calls,     \* number of start_session() calls of this request
    send_result,     \* how driver.send_message ended ("none": not called)
    svc_out,         \* what create_chat_completion returned or raised
    http_status,     \* the status the route answered with (0: not yet)
    \* ---- ChatGPTDriver.send_message ----
    m_pc,            \* "off" | "login_check" | "input_op" | "send_op" | "send_sleep" |
                     \* "wait_start" | "analyze" | "poll" | "after_loop" | "done"
    writes,          \* number of completed _execute_send_strategy calls
    m_attempt,       \* loop index of the wrapper that runs send_operation
    send_successful, \* the local send_successful
    send_attempts,   \* the local send_attempts
    submits,         \* number of completed click / Enter dispatches
    phase,           \* number of wait_phases entries gone through
    response_started,\* the local response_started
    ui_state,        \* keys of the dict _analyze_ui_state returned ({}: not called)
    elapsed,         \* time.time() - response_start_time, in seconds
    response_element,\* the local response_element: "None" | "elem"
    response_text,   \* the local response_text, by its length (0: "")
    completion_decided, \* check_completion returned True and the loop was left by break
    m_out,           \* what send_message returned or raised
    login_ok,        \* what the login check at the start reported: "none" | "True" | "False"
    cleanups,        \* number of _enhanced_cleanup calls
    submit_tries,    \* send_operation invocations that went on to _find_send_button
    stale_fails,     \* those of them that raised StaleElementReferenceException
    steps,           \* the steps of send_message gone through, in the order they began
    waited,          \* the timeout_seconds of the wait_phases entries gone through
    lapsed_in_wait,  \* the login session ended while the completion loop was running
    carried_use,     \* a pass of the loop used the response_element of an earlier pass
    input_attempt,   \* loop index of the wrapper that runs optimized_input_operation
    last_write,      \* how the last _execute_send_strategy call ended ("none": not called)
    earlier_shown,   \* the document shows the assistant response of an earlier exchange
    text_from,       \* the exchange whose response response_text was read from
    \* ---- ChatGPTDriver._select_send_strategy ----
    s_pc,            \* "off" | "select" | "done"
    message_length,  \* the message_length argument
    safe_send_limit, \* settings.safe_send_limit
    strategy,        \* the return value ("none": not returned yet)
    \* ---- concurrent requests to the route on the server's event loop ----
    e_pc,            \* per request: "queued" | "handler" | "input" | "submit" | "wait" |
                     \* "returned" | "done" (<<>>: the component is off)
    e_out,           \* per request: how its exchange ended ("none": not yet)
    \* ---- the session operations of ChatGPTDriver, called one after another ----
    q_pc,            \* "off" | "idle"
    q_op,            \* the last operation: "none" | "start" | "close" | "is_active"
    q_result,        \* its return value: "none" | "True" | "False"
    instance,        \* SeleniumWrapper._instance: "None" | "wrapper"
    get_calls,       \* SeleniumWrapper.get_instance calls made by the last start_session
    q_steps,         \* number of operations so far
    q_last_start,    \* what the last start_session returned ("closed": close_session
                     \* has run since, "none": never called)
    \* ---- the except clause of send_message and _collect_exception_details ----
    d_pc,            \* "off" | "collect" | "raise" | "done"
    exc_type,        \* type(exception).__name__
    exc_text,        \* str(exception), a sequence of tokens
    selenium_msg,    \* the exception's msg attribute, if it has one
    stack,           \* the names that traceback.format_exc() shows
    collect_fails,   \* the try block of _collect_exception_details raises
    details_message, \* error_details['message']
    raised_message,  \* the message of the RuntimeError that send_message raises
    \* ---- ChatGPTDriver._execute_send_strategy ----
    x_pc,            \* "off" | "start" | "chunking" | "done" | "raised"
    x_strategy,      \* the strategy argument
    x_message,       \* the message argument
    x_calls,         \* the writes made: send_keys and _send_message_with_smart_chunking
    \* ---- ChatGPTDriver._enhanced_cleanup ----
    u_pc,            \* "off" | "clear" | "read" | "forced" | "done"
    u_value,         \* what get_attribute('value') gives after clear()
    u_text,          \* what input_element.text gives after clear()
    u_ops,           \* the operations issued on the input element, in order
    u_residual,      \* the local residual_data (<<>> before it is assigned)
    u_result,        \* whether the function has returned, and the text it returned
    \* ---- SeleniumWrapper.get_instance / close_instance, called by threads ----
    g_pc,            \* per thread: where it is in get_instance or close_instance
    g_lock,          \* the thread inside `with cls._lock` (0: nobody)
    g_instance,      \* cls._instance, by the number of the instance (0: None)
    g_live,          \* the instances constructed and not yet quit
    g_made,          \* number of instances constructed so far
    g_closes,        \* number of times close_instance has set _instance to None
    g_gots,          \* what the get_instance calls returned, and after how many closes
    g_calls,         \* number of calls so far
    \* ---- generate_streaming_response ----
    y_pc,            \* "off" | "loop" | "marker" | "done"
    content,         \* the content argument
    y_i,             \* the loop variable i
    events,          \* what the generator has yielded
    \* ---- ChatGPTDriver._check_login_status ----
    l_pc,            \* "off" | "check" | "done"
    l_driver_ok,     \* self.selenium_wrapper.driver can be read
    login_probes,    \* per login indicator: what the probe of it does
    chat_probes,     \* per chat-interface indicator: what the probe of it does
    l_result         \* the return value ("none": not returned yet)

retryVars == <<w_pc, max_retries, script, value, attempt, calls, sleeps,
               last_exception, w_out>>

completeVars == <<c_pc, c_response_text, c_driver_ok, ui_stop_active, ui_streaming, stop_probe,
                  stream_probe, initial_text, stable_count, c_i, samples, c_result>>

chunkVars == <<k_pc, message, chunks, k_i, written, k_waits>>

serviceVars == <<h_pc, request, selenium_wrapper, wait, session_active, wrapper_driver,
                 start_calls, send_result, svc_out, http_status>>

sendVars == <<m_pc, writes, m_attempt, send_successful, send_attempts, submits, phase,
              response_started, ui_state, elapsed, response_element, response_text,
              completion_decided, m_out, login_ok, cleanups, submit_tries, stale_fails, steps,
              waited, lapsed_in_wait, carried_use, input_attempt, last_write, earlier_shown,
              text_from>>

strategyVars == <<s_pc, message_length, safe_send_limit, strategy>>

loopVars == <<e_pc, e_out>>

sessionVars == <<q_pc, q_op, q_result, instance, get_calls, q_steps, q_last_start>>

\* The fields of the ChatGPTDriver and the driver of the wrapper it holds.
driverVars == <<selenium_wrapper, wait, session_active, wrapper_driver>>

detailsVars == <<d_pc, exc_type, exc_text, selenium_msg, stack, collect_fails,
                 details_message, raised_message>>

execVars == <<x_pc, x_strategy, x_message, x_calls>>

cleanupVars == <<u_pc, u_value, u_text, u_ops, u_residual, u_result>>

singletonVars == <<g_pc, g_lock, g_instance, g_live, g_made, g_closes, g_gots, g_calls>>

streamVars == <<y_pc, content, y_i, events>>

loginVars == <<l_pc, l_driver_ok, login_probes, chat_probes, l_result>>

vars == <<retryVars, completeVars, chunkVars, serviceVars, sendVars, strategyVars, loopVars,
          sessionVars, detailsVars, execVars, cleanupVars, singletonVars, streamVars, loginVars>>

\* What the actions of one component leave unchanged: the other components.
retryOthers == <<completeVars, chunkVars, serviceVars, sendVars, strategyVars, loopVars, sessionVars, detailsVars,
                   execVars, cleanupVars, singletonVars, streamVars, loginVars>>
completeOthers == <<retryVars, chunkVars, serviceVars, sendVars, strategyVars, loopVars, sessionVars, detailsVars,
                   execVars, cleanupVars, singletonVars, streamVars, loginVars>>
chunkOthers == <<retryVars, completeVars, serviceVars, sendVars, strategyVars, loopVars, sessionVars, detailsVars,
                   execVars, cleanupVars, singletonVars, streamVars, loginVars>>
serviceOthers == <<retryVars, completeVars, chunkVars, sendVars, strategyVars, loopVars, sessionVars, detailsVars,
                   execVars, cleanupVars, singletonVars, streamVars, loginVars>>
sendOthers == <<retryVars, completeVars, chunkVars, serviceVars, strategyVars, loopVars, sessionVars, detailsVars,
                   execVars, cleanupVars, singletonVars, streamVars, loginVars>>
strategyOthers == <<retryVars, completeVars, chunkVars, serviceVars, sendVars, loopVars, sessionVars, detailsVars,
                   execVars, cleanupVars, singletonVars, streamVars, loginVars>>
loopOthers == <<retryVars, completeVars, chunkVars, serviceVars, sendVars, strategyVars, sessionVars, detailsVars,
                   execVars, cleanupVars, singletonVars, streamVars, loginVars>>
\* The session operations work on the driver fields, which the service also reads.
sessionOthers == <<retryVars, completeVars, chunkVars, sendVars, strategyVars, loopVars,
                   h_pc, request, start_calls, send_result, svc_out, http_status, detailsVars,
                   execVars, cleanupVars, singletonVars, streamVars, loginVars>>
detailsOthers == <<retryVars, completeVars, chunkVars, serviceVars, sendVars, strategyVars,
                   loopVars, sessionVars,
                   execVars, cleanupVars, singletonVars, streamVars, loginVars>>
execOthers == <<retryVars, completeVars, chunkVars, serviceVars, sendVars, strategyVars,
                loopVars, sessionVars, detailsVars, cleanupVars, singletonVars, streamVars, loginVars>>
cleanupOthers == <<retryVars, completeVars, chunkVars, serviceVars, sendVars, strategyVars,
                   loopVars, sessionVars, detailsVars, execVars, singletonVars, streamVars, loginVars>>
singletonOthers == <<retryVars, completeVars, chunkVars, serviceVars, sendVars, strategyVars,
                     loopVars, sessionVars, detailsVars, execVars, cleanupVars, streamVars, loginVars>>
streamOthers == <<retryVars, completeVars, chunkVars, serviceVars, sendVars, strategyVars,
                  loopVars, sessionVars, detailsVars, execVars, cleanupVars, singletonVars,
                  loginVars>>
loginOthers == <<retryVars, completeVars, chunkVars, serviceVars, sendVars, strategyVars,
                 loopVars, sessionVars, detailsVars, execVars, cleanupVars, singletonVars,
                 streamVars>>

None == [kind |-> "None"]

(***************************************************************************)
(* safe_element_operation                                                  *)
(***************************************************************************)

\* Bounds of the stub operation and of the retry budget that is explored.
MaxRetries == 3
MaxScript == 3

Outcomes == {"ok", "stale", "other"}

RECURSIVE SeqsUpTo(_, _)
SeqsUpTo(S, n) ==
    IF n = 0 THEN {<<>>}
    ELSE LET shorter == SeqsUpTo(S, n - 1)
         IN  shorter \cup {Append(s, x) : s \in {t \in shorter : Len(t) = n - 1}, x \in S}

\* The outcome of the n-th invocation of the stub: it follows the script and
\* succeeds once the script is exhausted.
OpOutcome(n) == IF n <= Len(script) THEN script[n] ELSE "ok"

\* An exception object: its class and the invocation that raised it (its identity).
Exc(kind, id) == [kind |-> kind, id |-> id]

\* Mutant: the retry test of line 1232 off by one.
RetryDecisionOffByOne(outcome, att, maxr) ==
    CASE outcome = "ok" -> "return"
      [] outcome = "stale" -> IF att < maxr - 1 THEN "retry" ELSE "raise_last"
      [] OTHER -> "raise"

\* Mutant: every exception is retried like a stale reference.
RetryDecisionRetryAll(outcome, att, maxr) ==
    CASE outcome = "ok" -> "return"
      [] OTHER -> IF att < maxr THEN "retry" ELSE "raise_last"

\* What one pass of the loop body does with the operation's outcome
\* (the try / except StaleElementReferenceException / except Exception).
RetryDecision(outcome, att, maxr) ==
    CASE outcome = "ok" -> "return"
      [] outcome = "stale" -> IF att < maxr THEN "retry" ELSE "raise_last"
      [] OTHER -> "raise"

\* `raise last_exception`: raising None is a TypeError in Python.
RaiseLast(e) == IF e = None THEN Exc("TypeError", 0) ELSE e

InitRetryOff ==
    /\ w_pc = "off"
    /\ max_retries = 0
    /\ script = <<>>
    /\ value = "v1"
    /\ attempt = 0
    /\ calls = 0
    /\ sleeps = 0
    /\ last_exception = None
    /\ w_out = None

InitRetry ==
    /\ w_pc = "loop"
    /\ max_retries \in -1 .. MaxRetries
    /\ script \in SeqsUpTo(Outcomes, MaxScript)
    /\ value \in {"v1", "v2"}
    /\ attempt = 0
    /\ calls = 0
    /\ sleeps = 0
    /\ last_exception = None
    /\ w_out = None

\* One iteration of the for loop: operation() is invoked and its outcome handled.
WrapperInvoke ==
    /\ w_pc = "loop"
    /\ attempt < max_retries + 1
    /\ LET n == calls + 1
           outcome == OpOutcome(n)
           d == RetryDecision(outcome, attempt, max_retries)
       IN  /\ calls' = n
           /\ CASE d = "return" ->
                     /\ w_pc' = "returned"
                     /\ w_out' = [kind |-> "value", id |-> value]
                     /\ UNCHANGED last_exception
                [] d = "retry" ->
                     /\ w_pc' = "sleep"
                     /\ last_exception' = Exc(outcome, n)
                     /\ UNCHANGED w_out
                [] d = "raise_last" ->
                     /\ w_pc' = "raised"
                     /\ last_exception' = Exc(outcome, n)
                     /\ w_out' = RaiseLast(Exc(outcome, n))
                [] OTHER ->
                     /\ w_pc' = "raised"
                     /\ w_out' = Exc(outcome, n)
                     /\ UNCHANGED last_exception
    /\ UNCHANGED <<max_retries, script, value, attempt, sleeps>>
    /\ UNCHANGED retryOthers

\* time.sleep(retry_delay); continue
WrapperSleep ==
    /\ w_pc = "sleep"
    /\ sleeps' = sleeps + 1
    /\ attempt' = attempt + 1
    /\ w_pc' = "loop"
    /\ UNCHANGED <<max_retries, script, value, calls, last_exception, w_out>>
    /\ UNCHANGED retryOthers

\* range(max_retries + 1) is empty (max_retries < 0): the loop body never runs
\* and `raise last_exception` raises with last_exception = None.
WrapperEmptyRange ==
    /\ w_pc = "loop"
    /\ ~(attempt < max_retries + 1)
    /\ w_pc' = "raised"
    /\ w_out' = RaiseLast(last_exception)
    /\ UNCHANGED <<max_retries, script, value, attempt, calls, sleeps, last_exception>>
    /\ UNCHANGED retryOthers

NextRetry ==
    \/ WrapperInvoke
    \/ WrapperSleep
    \/ WrapperEmptyRange


(***************************************************************************)
(* _is_response_complete                                                   *)
(***************************************************************************)

\* Number of distinct texts of each length that the document may show.
NumTexts == 2

\* `if len(initial_text) < 20`
MinResponseLen == 20
\* monitoring_duration = 2.0 and check_interval = 0.5, in milliseconds.
monitoring_duration == 2000
check_interval == 500
\* stability_checks = int(monitoring_duration / check_interval)
stability_checks == monitoring_duration \div check_interval
\* stability_threshold = stability_checks * 0.7, in tenths of a check.
StabilityTenths == 7

\* A text after .strip(): which text it is and its length. Two texts are equal
\* iff both agree; the empty string is one text.
EmptyText == [kind |-> "text", id |-> 0, len |-> 0]
Texts ==
    {EmptyText} \cup
    {[kind |-> "text", id |-> c, len |-> n] : c \in 1 .. NumTexts, n \in {MinResponseLen - 1, MinResponseLen}}

\* response_element.text raising: StaleElementReferenceException, or another exception.
StaleRead == [kind |-> "stale", id |-> 0, len |-> 0]
ErrorRead == [kind |-> "error", id |-> 0, len |-> 0]
Reads == Texts \cup {StaleRead, ErrorRead}

\* Step 1 and step 2: the probe sees the document unless find_elements /
\* is_displayed / is_enabled raises; the exception is logged and swallowed.
Probe(active, raises) ==
    IF raises THEN "error" ELSE IF active THEN "active" ELSE "inactive"

\* One pass of the stability loop on what response_element.text gave:
\* the early return (if any), and the new initial_text and stable_count.
SampleStep(init, count, read) ==
    CASE read = StaleRead -> [ret |-> "True", init |-> init, count |-> count]
      [] read = ErrorRead -> [ret |-> "none", init |-> init, count |-> count + 1]
      [] OTHER ->
            IF read = init /\ read.len = init.len
            THEN [ret |-> "none", init |-> init, count |-> count + 1]
            ELSE [ret |-> "none", init |-> read, count |-> 0]

\* A Python bool.
PyBool(b) == IF b THEN "True" ELSE "False"

\* Mutant: the stability threshold compared with the whole window, strictly.
DecideStrict(init, count) ==
    IF init.len < MinResponseLen THEN "False"
    ELSE PyBool(count > stability_checks)

\* Steps 4 to 6: the minimum length, then the stability threshold.
Decide(init, count) ==
    IF init.len < MinResponseLen THEN "False"
    ELSE PyBool(count * 10 >= stability_checks * StabilityTenths)

InitCompleteOff ==
    /\ c_pc = "off"
    /\ c_response_text = EmptyText
    /\ c_driver_ok = TRUE
    /\ ui_stop_active = FALSE
    /\ ui_streaming = FALSE
    /\ stop_probe = "none"
    /\ stream_probe = "none"
    /\ initial_text = EmptyText
    /\ stable_count = 0
    /\ c_i = 0
    /\ samples = <<>>
    /\ c_result = "none"

InitComplete ==
    /\ c_pc = "stop_check"
    /\ c_response_text \in Texts
    /\ c_driver_ok \in BOOLEAN
    /\ ui_stop_active = FALSE
    /\ ui_streaming = FALSE
    /\ stop_probe = "none"
    /\ stream_probe = "none"
    /\ initial_text = EmptyText
    /\ stable_count = 0
    /\ c_i = 0
    /\ samples = <<>>
    /\ c_result = "none"

\* `driver = self.selenium_wrapper.driver` raises: the outer handler returns False.
CompleteNoDriver ==
    /\ c_pc = "stop_check"
    /\ ~c_driver_ok
    /\ c_pc' = "done"
    /\ c_result' = "False"
    /\ UNCHANGED <<c_response_text, c_driver_ok, ui_stop_active, ui_streaming, stop_probe,
                   stream_probe, initial_text, stable_count, c_i, samples>>
    /\ UNCHANGED completeOthers

\* Step 1: the stop button.
CompleteStopCheck ==
    /\ c_pc = "stop_check"
    /\ c_driver_ok
    /\ \E active \in BOOLEAN, raises \in BOOLEAN :
          /\ ui_stop_active' = active
          /\ stop_probe' = Probe(active, raises)
          /\ IF stop_probe' = "active"
             THEN c_pc' = "done" /\ c_result' = "False"
             ELSE c_pc' = "stream_check" /\ UNCHANGED c_result
    /\ UNCHANGED <<c_response_text, c_driver_ok, ui_streaming, stream_probe, initial_text,
                   stable_count, c_i, samples>>
    /\ UNCHANGED completeOthers

\* Step 2: the streaming indicators; then the locals of step 3 are set up.
CompleteStreamCheck ==
    /\ c_pc = "stream_check"
    /\ \E active \in BOOLEAN, raises \in BOOLEAN :
          /\ ui_streaming' = active
          /\ stream_probe' = Probe(active, raises)
          /\ IF stream_probe' = "active"
             THEN /\ c_pc' = "done" /\ c_result' = "False"
                  /\ UNCHANGED <<initial_text, stable_count, c_i>>
             ELSE /\ c_pc' = "sample"
                  /\ initial_text' = c_response_text
                  /\ stable_count' = 0
                  /\ c_i' = 0
                  /\ UNCHANGED c_result
    /\ UNCHANGED <<c_response_text, c_driver_ok, ui_stop_active, stop_probe, samples>>
    /\ UNCHANGED completeOthers

\* Step 3: one pass of `for i in range(stability_checks)`.
CompleteSample ==
    /\ c_pc = "sample"
    /\ c_i < stability_checks
    /\ \E read \in Reads :
          LET st == SampleStep(initial_text, stable_count, read)
          IN  /\ samples' = Append(samples, read)
              /\ initial_text' = st.init
              /\ stable_count' = st.count
              /\ c_i' = c_i + 1
              /\ IF st.ret = "none"
                 THEN UNCHANGED <<c_pc, c_result>>
                 ELSE c_pc' = "done" /\ c_result' = st.ret
    /\ UNCHANGED <<c_response_text, c_driver_ok, ui_stop_active, ui_streaming, stop_probe,
                   stream_probe>>
    /\ UNCHANGED completeOthers

\* Steps 4 to 6, after the loop.
CompleteDecide ==
    /\ c_pc = "sample"
    /\ c_i = stability_checks
    /\ c_result' = Decide(initial_text, stable_count)
    /\ c_pc' = "done"
    /\ UNCHANGED <<c_response_text, c_driver_ok, ui_stop_active, ui_streaming, stop_probe,
                   stream_probe, initial_text, stable_count, c_i, samples>>
    /\ UNCHANGED completeOthers

NextComplete ==
    \/ CompleteNoDriver
    \/ CompleteStopCheck
    \/ CompleteStreamCheck
    \/ CompleteSample
    \/ CompleteDecide

(***************************************************************************)
(* _send_message_with_smart_chunking and _split_sentences                  *)
(***************************************************************************)

\* Longest message explored, and the chunk size limit the packing is run with
\* (max_chunk_size, 3500 in the source, scaled down with the messages).
MaxMsgLen == 6
ChunkSize == 3

\* The characters of a message: "n" is a line feed, "a" any other character.
Chars == {"a", ".", " ", "n"}
ParaSep == <<"n", "n">>
SentSep == <<".", " ">>

\* The first index >= i at which sep occurs in s, or 0 (str.find).
RECURSIVE Find(_, _, _)
Find(s, sep, i) ==
    IF i + Len(sep) - 1 > Len(s) THEN 0
    ELSE IF SubSeq(s, i, i + Len(sep) - 1) = sep THEN i
    ELSE Find(s, sep, i + 1)

\* str.split(sep): the pieces between the non-overlapping occurrences of sep,
\* found left to right; empty pieces are kept.
RECURSIVE Split(_, _)
Split(s, sep) ==
    LET i == Find(s, sep, 1)
    IN  IF i = 0 THEN <<s>>
        ELSE <<SubSeq(s, 1, i - 1)>> \o Split(SubSeq(s, i + Len(sep), Len(s)), sep)

\* _split_sentences: the loop over sentences, from (chunks, current_chunk) = (cs, cur),
\* and the final `if current_chunk: chunks.append(current_chunk)`.
RECURSIVE SplitSentencesFrom(_, _, _, _)
SplitSentencesFrom(sentences, max_size, cs, cur) ==
    IF sentences = <<>>
    THEN IF cur # <<>> THEN Append(cs, cur) ELSE cs
    ELSE LET sentence == Head(sentences)
         IN  IF Len(cur \o sentence) <= max_size
             THEN SplitSentencesFrom(Tail(sentences), max_size, cs,
                                     IF cur # <<>> THEN cur \o SentSep \o sentence
                                                   ELSE sentence)
             ELSE SplitSentencesFrom(Tail(sentences), max_size,
                                     IF cur # <<>> THEN Append(cs, cur) ELSE cs,
                                     sentence)

split_sentences(sentences, max_size) == SplitSentencesFrom(sentences, max_size, <<>>, <<>>)

\* A chunk and the boundary of the message at which it starts.
Chunk(text, boundary) == [text |-> text, boundary |-> boundary]

\* The chunks of one over-long paragraph: the first starts at the paragraph
\* boundary, the others at sentence boundaries.
SentenceChunks(paragraph, max_size) ==
    LET ss == split_sentences(Split(paragraph, SentSep), max_size)
    IN  [j \in 1 .. Len(ss) |-> Chunk(ss[j], IF j = 1 THEN "paragraph" ELSE "sentence")]

\* The loop over paragraphs, from (chunks, current_chunk) = (cs, cur), and the final
\* `if current_chunk: chunks.append(current_chunk)`.
RECURSIVE PackParagraphs(_, _, _, _)
PackParagraphs(paragraphs, max_size, cs, cur) ==
    IF paragraphs = <<>>
    THEN IF cur # <<>> THEN Append(cs, Chunk(cur, "paragraph")) ELSE cs
    ELSE LET paragraph == Head(paragraphs)
             rest == Tail(paragraphs)
         IN  IF Len(cur \o paragraph) <= max_size
             THEN PackParagraphs(rest, max_size, cs,
                                 IF cur # <<>> THEN cur \o ParaSep \o paragraph
                                               ELSE paragraph)
             ELSE LET flushed == IF cur # <<>> THEN Append(cs, Chunk(cur, "paragraph"))
                                               ELSE cs
                  IN  IF Len(paragraph) > max_size
                      THEN PackParagraphs(rest, max_size,
                                          flushed \o SentenceChunks(paragraph, max_size),
                                          <<>>)
                      ELSE PackParagraphs(rest, max_size, flushed, paragraph)

\* The chunks list built by _send_message_with_smart_chunking.
SmartChunks(msg, max_size) == PackParagraphs(Split(msg, ParaSep), max_size, <<>>, <<>>)

\* How a wait between two chunks can end: the stop button was seen gone, or the
\* 30 s WebDriverWait timed out and the exception was logged ("proceeding anyway").
WaitEnds == {"gone", "timeout"}

InitChunkOff ==
    /\ k_pc = "off"
    /\ message = <<>>
    /\ chunks = <<>>
    /\ k_i = 0
    /\ written = <<>>
    /\ k_waits = <<>>

InitChunk ==
    /\ k_pc = "split"
    /\ message \in SeqsUpTo(Chars, MaxMsgLen)
    /\ chunks = <<>>
    /\ k_i = 0
    /\ written = <<>>
    /\ k_waits = <<>>

\* Lines 527-555: the chunks are built.
ChunkSplit ==
    /\ k_pc = "split"
    /\ chunks' = SmartChunks(message, ChunkSize)
    /\ k_i' = 0
    /\ k_pc' = IF chunks' = <<>> THEN "done" ELSE "send"
    /\ UNCHANGED <<message, written, k_waits>>
    /\ UNCHANGED chunkOthers

\* input_element.send_keys(chunk) returns; after the last chunk the loop ends.
ChunkSend ==
    /\ k_pc = "send"
    /\ written' = Append(written, chunks[k_i + 1].text)
    /\ k_pc' = IF k_i < Len(chunks) - 1 THEN "wait" ELSE "done"
    /\ UNCHANGED <<message, chunks, k_i, k_waits>>
    /\ UNCHANGED chunkOthers

\* input_element.send_keys(chunk) raises: the exception leaves the function.
ChunkSendRaises ==
    /\ k_pc = "send"
    /\ k_pc' = "raised"
    /\ UNCHANGED <<message, chunks, k_i, written, k_waits>>
    /\ UNCHANGED chunkOthers

\* Between two chunks: _wait_for_stop_button_disappear(), then time.sleep(1.0).
ChunkWait ==
    /\ k_pc = "wait"
    /\ \E w \in WaitEnds : k_waits' = Append(k_waits, w)
    /\ k_i' = k_i + 1
    /\ k_pc' = "send"
    /\ UNCHANGED <<message, chunks, written>>
    /\ UNCHANGED chunkOthers

NextChunk ==
    \/ ChunkSplit
    \/ ChunkSend
    \/ ChunkSendRaises
    \/ ChunkWait

(***************************************************************************)
(* ChatGPTService.create_chat_completion and the /v1/chat/completions route *)
(***************************************************************************)

\* Mutant: the liveness flag is not consulted.
IsSessionActiveNoFlag(flag, wrapper, drv) ==
    wrapper # "None" /\ drv # "None" /\ drv = "session"

\* is_session_active()
IsSessionActive(flag, wrapper, drv) ==
    flag /\ wrapper # "None" /\ drv # "None" /\ drv = "session"

\* How start_session() can go: SeleniumWrapper.get_instance raises; the wrapper has
\* no driver; navigating or waiting for the page raises; the login check fails; success.
StartOutcomes == {"get_instance_raises", "no_driver", "page_raises", "not_logged_in", "ok"}

\* Mutant: close_session also quits the wrapper's WebDriver.
CloseSessionQuits(d) ==
    IF d.selenium_wrapper # "None"
    THEN [d EXCEPT !.selenium_wrapper = "None", !.wait = "None", !.session_active = FALSE,
                   !.wrapper_driver = "None"]
    ELSE d

\* close_session(): the references are cleared only if a wrapper is held.
CloseSession(d) ==
    IF d.selenium_wrapper # "None"
    THEN [d EXCEPT !.selenium_wrapper = "None", !.wait = "None", !.session_active = FALSE]
    ELSE d

\* start_session() on the driver fields d; drv is the driver of the wrapper obtained.
StartSession(d, outcome, drv) ==
    CASE outcome = "get_instance_raises" -> CloseSession(d)
      [] outcome = "no_driver" ->
            [d EXCEPT !.selenium_wrapper = "wrapper", !.wrapper_driver = "None"]
      [] outcome = "page_raises" ->
            CloseSession([d EXCEPT !.selenium_wrapper = "wrapper", !.wait = "wait",
                                   !.wrapper_driver = drv])
      [] outcome = "not_logged_in" ->
            [d EXCEPT !.selenium_wrapper = "wrapper", !.wait = "wait", !.wrapper_driver = drv]
      [] OTHER ->
            [d EXCEPT !.selenium_wrapper = "wrapper", !.wait = "wait", !.wrapper_driver = drv,
                      !.session_active = TRUE]

\* How driver.send_message can end: a text (plain, nothing but a "thinking" message,
\* or containing the mock-response marker), no text, or a RuntimeError whose message
\* is the login one, the response-not-found one, the start-timeout one or another.
SendTexts == {"plain", "thinking_only", "mock"}
SendErrors == {"login", "not_found", "start_timeout", "other"}
SendResults ==
    {[kind |-> "text", what |-> t] : t \in SendTexts}
        \cup {[kind |-> "empty", what |-> "empty"]}
        \cup {[kind |-> "raise", what |-> e] : e \in SendErrors}

NoSend == [kind |-> "none", what |-> "none"]

\* `"ログイン" in str(e) or "login" in str(e).lower()` for the messages send_message raises:
\* the login message and the response-not-found message both contain "ログイン".
MentionsLogin(e) == e \in {"login", "not_found", "login_required", "check_login"}

Returned(text) == [kind |-> "response", what |-> text]
ReturnedNone == [kind |-> "None", what |-> "None"]
Raised(e) == [kind |-> "raise", what |-> e]
NoResult == [kind |-> "none", what |-> "none"]

\* _handle_regular_chat from driver.send_message on: a raise propagates.
HandleRegularChat(r) ==
    CASE r.kind = "raise" -> Raised(r.what)
      [] r.kind = "empty" -> ReturnedNone
      [] r.what = "thinking_only" -> ReturnedNone
      [] OTHER -> Returned(r.what)

\* _handle_function_calling from driver.send_message on: `except Exception` and the
\* empty-response branch both answer with _build_error_response (an assistant message
\* "I apologize, but I encountered an error ..." with finish_reason "stop").
HandleFunctionCalling(r, detected) ==
    CASE r.kind = "raise" -> Returned("apology")
      [] r.kind = "empty" -> Returned("apology")
      [] detected -> Returned("function_call")
      [] OTHER -> Returned(r.what)

\* create_chat_completion's `except RuntimeError`: the message is rewritten.
RewriteRuntimeError(e) ==
    IF MentionsLogin(e) THEN Raised("login_required")
    ELSE IF e = "not_found" THEN Raised("check_login")
    ELSE Raised(e)

\* create_chat_completion once the session is active and the message is built.
CreateChatCompletion(fn, r, detected) ==
    LET out == IF fn THEN HandleFunctionCalling(r, detected) ELSE HandleRegularChat(r)
    IN  IF out.kind = "raise" THEN RewriteRuntimeError(out.what) ELSE out

\* The route: no response is a 500, the mock-response marker a 503, a RuntimeError
\* naming the login a 401 and any other a 500; everything else is the 200 answer.
ApiStatus(out) ==
    CASE out.kind = "None" -> 500
      [] out.kind = "raise" -> IF MentionsLogin(out.what) THEN 401 ELSE 500
      [] out.what = "mock" -> 503
      [] OTHER -> 200

DriverFields ==
    [selenium_wrapper |-> selenium_wrapper, wait |-> wait,
     session_active |-> session_active, wrapper_driver |-> wrapper_driver]

\* The driver states a request can find: never started, started, started and the
\* browser session gone since.
DriverStates ==
    { [selenium_wrapper |-> "None", wait |-> "None", session_active |-> FALSE,
       wrapper_driver |-> "None"],
      [selenium_wrapper |-> "wrapper", wait |-> "wait", session_active |-> TRUE,
       wrapper_driver |-> "session"],
      [selenium_wrapper |-> "wrapper", wait |-> "wait", session_active |-> TRUE,
       wrapper_driver |-> "no_session"] }

InitServiceOff ==
    /\ h_pc = "off"
    /\ request = [fn |-> FALSE, stream |-> FALSE, valid |-> FALSE]
    /\ selenium_wrapper = "None"
    /\ wait = "None"
    /\ session_active = FALSE
    /\ wrapper_driver = "None"
    /\ start_calls = 0
    /\ send_result = NoSend
    /\ svc_out = NoResult
    /\ http_status = 0

InitService ==
    /\ h_pc = "session_check"
    /\ request \in [fn : BOOLEAN, stream : BOOLEAN, valid : BOOLEAN]
    /\ \E d \in DriverStates :
          /\ selenium_wrapper = d.selenium_wrapper
          /\ wait = d.wait
          /\ session_active = d.session_active
          /\ wrapper_driver = d.wrapper_driver
    /\ start_calls = 0
    /\ send_result = NoSend
    /\ svc_out = NoResult
    /\ http_status = 0

\* `if not self.driver.is_session_active()` with the session active.
SvcSessionActive ==
    /\ h_pc = "session_check"
    /\ IsSessionActive(session_active, selenium_wrapper, wrapper_driver)
    /\ h_pc' = "dispatch"
    /\ UNCHANGED <<request, selenium_wrapper, wait, session_active, wrapper_driver,
                   start_calls, send_result, svc_out, http_status>>
    /\ UNCHANGED serviceOthers

\* Mutant: the service goes on to the handler whatever start_session achieved.
SvcInitSessionGoesOn ==
    /\ h_pc = "session_check"
    /\ ~IsSessionActive(session_active, selenium_wrapper, wrapper_driver)
    /\ \E outcome \in StartOutcomes, drv \in {"session", "no_session"} :
          LET d == StartSession(DriverFields, outcome, drv)
          IN  /\ selenium_wrapper' = d.selenium_wrapper
              /\ wait' = d.wait
              /\ session_active' = d.session_active
              /\ wrapper_driver' = d.wrapper_driver
    /\ h_pc' = "dispatch"
    /\ start_calls' = start_calls + 1
    /\ UNCHANGED <<request, send_result, svc_out, http_status>>
    /\ UNCHANGED serviceOthers

\* The session is inactive: _initialize_session() calls start_session() once, and
\* the request ends with None if the session is still inactive.
SvcInitSession ==
    /\ h_pc = "session_check"
    /\ ~IsSessionActive(session_active, selenium_wrapper, wrapper_driver)
    /\ \E outcome \in StartOutcomes, drv \in {"session", "no_session"} :
          LET d == StartSession(DriverFields, outcome, drv)
          IN  /\ selenium_wrapper' = d.selenium_wrapper
              /\ wait' = d.wait
              /\ session_active' = d.session_active
              /\ wrapper_driver' = d.wrapper_driver
              /\ IF IsSessionActive(d.session_active, d.selenium_wrapper, d.wrapper_driver)
                 THEN h_pc' = "dispatch" /\ UNCHANGED svc_out
                 ELSE h_pc' = "api" /\ svc_out' = ReturnedNone
    /\ start_calls' = start_calls + 1
    /\ UNCHANGED <<request, send_result, http_status>>
    /\ UNCHANGED serviceOthers

\* _build_combined_message gave nothing to send: the handler returns None.
SvcNoMessage ==
    /\ h_pc = "dispatch"
    /\ ~request.valid
    /\ svc_out' = ReturnedNone
    /\ h_pc' = "api"
    /\ UNCHANGED <<request, selenium_wrapper, wait, session_active, wrapper_driver,
                   start_calls, send_result, http_status>>
    /\ UNCHANGED serviceOthers

\* The handler sends the message and builds its answer from how the exchange ended.
SvcSend ==
    /\ h_pc = "dispatch"
    /\ request.valid
    /\ \E r \in SendResults, detected \in BOOLEAN :
          /\ send_result' = r
          /\ svc_out' = CreateChatCompletion(request.fn, r, detected)
    /\ h_pc' = "api"
    /\ UNCHANGED <<request, selenium_wrapper, wait, session_active, wrapper_driver,
                   start_calls, http_status>>
    /\ UNCHANGED serviceOthers

\* The route turns the service's answer into the HTTP status.
ApiRespond ==
    /\ h_pc = "api"
    /\ http_status' = ApiStatus(svc_out)
    /\ h_pc' = "done"
    /\ UNCHANGED <<request, selenium_wrapper, wait, session_active, wrapper_driver,
                   start_calls, send_result, svc_out>>
    /\ UNCHANGED serviceOthers

NextService ==
    \/ SvcSessionActive
    \/ SvcInitSession
    \/ SvcNoMessage
    \/ SvcSend
    \/ ApiRespond

(***************************************************************************)
(* ChatGPTDriver.send_message                                              *)
(***************************************************************************)

\* Texts of the response are told apart by their length, 0 .. MaxTextLen.
MaxTextLen == 2
\* Seconds that one pass of the completion loop takes.
TickSeconds == 200

max_send_attempts == 2
InputMaxRetries == 3
SendMaxRetries == 2
wait_phases == <<3, 7, 15>>
max_response_wait == 600

\* What _find_send_button does: an enabled button, none (Enter is used instead),
\* or an exception of find_element / is_enabled other than NoSuchElementException.
ButtonFinds == {"found", "none", "stale", "other"}
\* What send_button.click() does.
ClickEnds == {"ok", "stale", "other"}
\* What _find_input_element().send_keys(Keys.RETURN) does; "no_input": no input
\* element is found and None.send_keys raises AttributeError.
EnterEnds == {"ok", "stale", "other", "no_input"}

\* The end of an invocation that went on to _find_send_button (tried = 1).
SendEnd(successful, attempts, submit, end) ==
    [successful |-> successful, attempts |-> attempts, submit |-> submit, end |-> end,
     tried |-> 1]

\* The end of an invocation that one of the two guards turned back: `return True`.
SendSkipped(successful, attempts) ==
    [successful |-> successful, attempts |-> attempts, submit |-> 0, end |-> "ok",
     tried |-> 0]

\* Mutant: the closure without the `if send_successful` guard.
SendOperationUnguarded(successful, attempts, button, click, enter) ==
    LET n == attempts + 1
    IN  IF n > max_send_attempts THEN SendSkipped(successful, n)
        ELSE IF button \in {"stale", "other"} THEN SendEnd(successful, n, 0, button)
        ELSE IF button = "found"
        THEN IF click = "ok" THEN SendEnd(TRUE, n, 1, "ok")
             ELSE SendEnd(successful, n, 0, click)
        ELSE IF enter = "ok" THEN SendEnd(TRUE, n, 1, "ok")
             ELSE IF enter = "stale" THEN SendEnd(successful, n, 0, "stale")
             ELSE SendEnd(successful, n, 0, "other")

\* Mutant: the closure without the `if send_attempts > max_send_attempts` guard.
SendOperationUncapped(successful, attempts, button, click, enter) ==
    LET n == attempts + 1
    IN  IF successful THEN SendSkipped(successful, n)
        ELSE IF button \in {"stale", "other"} THEN SendEnd(successful, n, 0, button)
        ELSE IF button = "found"
        THEN IF click = "ok" THEN SendEnd(TRUE, n, 1, "ok")
             ELSE SendEnd(successful, n, 0, click)
        ELSE IF enter = "ok" THEN SendEnd(TRUE, n, 1, "ok")
             ELSE IF enter = "stale" THEN SendEnd(successful, n, 0, "stale")
             ELSE SendEnd(successful, n, 0, "other")

\* One invocation of the closure send_operation: the new send_successful and
\* send_attempts, the number of submits it dispatched, and how it ended
\* ("ok": it returned; "stale" / "other": it raised).
SendOperation(successful, attempts, button, click, enter) ==
    LET n == attempts + 1
    IN  IF successful THEN SendSkipped(successful, n)
        ELSE IF n > max_send_attempts THEN SendSkipped(successful, n)
        ELSE IF button \in {"stale", "other"} THEN SendEnd(successful, n, 0, button)
        ELSE IF button = "found"
        THEN IF click = "ok" THEN SendEnd(TRUE, n, 1, "ok")
             ELSE SendEnd(successful, n, 0, click)
        ELSE IF enter = "ok" THEN SendEnd(TRUE, n, 1, "ok")
             ELSE IF enter = "stale" THEN SendEnd(successful, n, 0, "stale")
             ELSE SendEnd(successful, n, 0, "other")

\* The attributes a ChatGPTDriver instance has.
DriverAttrs == {"selenium_wrapper", "wait", "_session_active"}

\* The keys of state_info.
StateInfoKeys ==
    {"page_loaded", "input_available", "send_button_state", "response_area_state",
     "login_state", "streaming_indicators", "error_messages"}

\* _analyze_ui_state: `driver = self.driver` is the first statement of its try
\* block; an AttributeError there ends in `return {'analysis_failed': str(e)}`.
AnalyzeUiState(attrs) ==
    IF "driver" \in attrs THEN StateInfoKeys ELSE {"analysis_failed"}

\* What the stop-button block of the loop does: skipped (checked less than a second
\* ago), an active button, none active, or an exception that is logged.
StopChecks == {"skipped", "active", "inactive", "error"}
\* What safe_element_operation(get_current_text) gives.
ReadKinds == {"text", "stale", "other"}

PollEnd(element, text, end) == [element |-> element, text |-> text, end |-> end]

\* One pass of the body of the completion loop. found: the text of the element the
\* selectors gave (0: none); stop: the stop-button block; check: check_completion;
\* idle, check2: the idle test and its second check_completion; rk, rt: the re-read.
PollIteration(element, text, found, stop, check, idle, check2, rk, rt) ==
    LET e1 == IF found # 0 THEN "elem" ELSE element
        t1 == IF found # 0 /\ found # text THEN found ELSE text
    IN  IF stop = "active" THEN PollEnd(e1, t1, "continue")
        ELSE IF e1 = "None" THEN PollEnd(e1, t1, "continue")
        ELSE IF check \/ (idle /\ check2) THEN PollEnd(e1, t1, "break")
        ELSE IF rk = "stale" THEN PollEnd("None", t1, "continue")
        ELSE IF rk = "other" THEN PollEnd(e1, t1, "raise")
        ELSE IF rt # t1 /\ rt > t1 THEN PollEnd(e1, rt, "continue")
        ELSE PollEnd(e1, t1, "continue")

NoOut == [kind |-> "none", what |-> "none", text |-> 0, type |-> "none", inner |-> "none"]
ReturnText(t) ==
    [kind |-> "return", what |-> "text", text |-> t, type |-> "str", inner |-> "none"]

\* The exceptions other than RuntimeError and StaleElementReferenceException that a
\* statement of the try block can raise.
OtherTypes == {"WebDriverException", "AttributeError", "TimeoutException"}

\* Mutant: the except clause raises the exception again as it is.
ExceptClauseReraises(inner) == inner

\* The type of what `except Exception as e` of send_message raises for an exception
\* of type inner: RuntimeError(str(e)) or RuntimeError(prefix + message).
ExceptClause(inner) == "RuntimeError"

\* An exception of type inner is raised inside the try block and leaves send_message
\* through the except clause.
Raise(what, inner) ==
    [kind |-> "raise", what |-> what, text |-> 0, type |-> ExceptClause(inner),
     inner |-> inner]

\* A RuntimeError leaving send_message through its `except Exception` clause.
RaiseRuntimeError(what) == Raise(what, "RuntimeError")

\* The names of the steps of send_message.
StepNames ==
    <<"login_check", "cleanup", "select", "write", "submit", "start_detect", "completion">>

\* steps with one more step begun; a step that is repeated is recorded once.
Begin(done, step) ==
    IF \E i \in 1 .. Len(done) : done[i] = step THEN done ELSE Append(done, step)

\* The calls of the closure optimized_input_operation, in its order: _enhanced_cleanup
\* and _select_send_strategy do not raise, so _execute_send_strategy is always reached.
InputSteps == <<"cleanup", "select", "write">>

\* How input_element.send_keys(message) can end: it returns, or it raises an
\* exception of the WebDriver or an AttributeError (input_element is None).
WriteEnds == {"ok", "stale", "webdriver", "attribute"}

\* Mutant: _execute_send_strategy lets the exception of the write through.
InputOperationEndUnwrapped(write_end) ==
    IF write_end \in {"ok", "stale"} THEN write_end ELSE "other"

\* How optimized_input_operation ends for the wrapper: _find_input_element and
\* _enhanced_cleanup raise nothing, and the `except Exception` of
\* _execute_send_strategy raises RuntimeError for every exception of the write.
InputOperationEnd(write_end) == IF write_end = "ok" THEN "ok" ELSE "other"

\* Mutant: a failed write does not end the exchange.
InputOpEndGoesOn(d) ==
    [pc |-> "send_op", out |-> NoOut, wrote |-> IF d = "return" THEN 1 ELSE 0]

\* How send_message goes on after safe_element_operation(optimized_input_operation):
\* an exception of the write leaves the try block for the except clause of line 411.
InputOpEnd(d) ==
    IF d = "return" THEN [pc |-> "send_op", out |-> NoOut, wrote |-> 1]
    ELSE IF d = "retry" THEN [pc |-> "input_op", out |-> NoOut, wrote |-> 0]
    ELSE [pc |-> "done", out |-> RaiseRuntimeError("other"), wrote |-> 0]

\* Mutant: a positive start signal does not leave the loop over wait_phases.
WaitPhaseEndNoBreak(started, ph) ==
    IF ph + 1 < Len(wait_phases) THEN "wait_start"
    ELSE IF started THEN "poll" ELSE "analyze"

\* The body of `for timeout_seconds, phase_description in wait_phases` for entry
\* ph + 1: `break` on a start signal, `continue` on TimeoutException, and the
\* `if not response_started` after the last entry.
WaitPhaseEnd(started, ph) ==
    IF started THEN "poll"
    ELSE IF ph + 1 = Len(wait_phases) THEN "analyze"
    ELSE "wait_start"

\* check_completion and get_current_text of a pass read response_element: it is the
\* element of an earlier pass when the selectors of this pass assigned none.
UsesCarriedHandle(element, found, stop) ==
    found = 0 /\ element # "None" /\ stop # "active"

\* The outcomes of the calls a pass does not make are not drawn: after `continue`
\* or `break` the later calls of the pass do not happen.
Drawn(stop, check, idle, check2, rk, rt) ==
    LET left == stop = "active" \/ check \/ (idle /\ check2)
    IN  /\ stop = "active" => ~check
        /\ (stop = "active" \/ check) => ~idle
        /\ ~idle => ~check2
        /\ left => rk = "text"
        /\ (left \/ rk # "text") => rt = 0

\* Mutant: a pass takes no time.
TickFrozen(t) == t

\* The clock of the loop after one pass: every pass that goes round again has slept
\* (time.sleep(0.5) of line 342 or 397, or the retry_delay of the wrapper).
Tick(t) == t + TickSeconds

\* The exchanges whose response the selectors of a pass can give: they take the last
\* assistant element of the document, whichever exchange produced it.
TextOrigins(earlier, found) ==
    IF found # 0 /\ earlier THEN {"current", "earlier"} ELSE {"current"}

\* What _check_login_status can report after the loop: False also when the state
\* cannot be determined, and only False once the session has ended.
AfterLoopLogin(lapsed) == IF lapsed THEN {FALSE} ELSE BOOLEAN

InitSendOff ==
    /\ m_pc = "off"
    /\ writes = 0
    /\ m_attempt = 0
    /\ send_successful = FALSE
    /\ send_attempts = 0
    /\ submits = 0
    /\ phase = 0
    /\ response_started = FALSE
    /\ ui_state = {}
    /\ elapsed = 0
    /\ response_element = "None"
    /\ response_text = 0
    /\ completion_decided = FALSE
    /\ m_out = NoOut
    /\ login_ok = "none"
    /\ cleanups = 0
    /\ submit_tries = 0
    /\ stale_fails = 0
    /\ steps = <<>>
    /\ waited = <<>>
    /\ lapsed_in_wait = FALSE
    /\ carried_use = FALSE
    /\ input_attempt = 0
    /\ last_write = "none"
    /\ earlier_shown = FALSE
    /\ text_from = "none"

InitSend ==
    /\ m_pc = "login_check"
    /\ writes = 0
    /\ m_attempt = 0
    /\ send_successful = FALSE
    /\ send_attempts = 0
    /\ submits = 0
    /\ phase = 0
    /\ response_started = FALSE
    /\ ui_state = {}
    /\ elapsed = 0
    /\ response_element = "None"
    /\ response_text = 0
    /\ completion_decided = FALSE
    /\ m_out = NoOut
    /\ login_ok = "none"
    /\ cleanups = 0
    /\ submit_tries = 0
    /\ stale_fails = 0
    /\ steps = <<>>
    /\ waited = <<>>
    /\ lapsed_in_wait = FALSE
    /\ carried_use = FALSE
    /\ input_attempt = 0
    /\ last_write = "none"
    /\ earlier_shown \in BOOLEAN
    /\ text_from = "none"

\* Mutant: a logged-out report does not stop the exchange.
LoginCheckIgnored(logged_in) == [pc |-> "input_op", out |-> NoOut]

\* `if not self._check_login_status(): raise RuntimeError(...)`: where the function
\* goes on and what it has raised; the message of the RuntimeError contains
\* "ログイン", so the except clause of line 416 raises it again as it is.
LoginCheckEnd(logged_in) ==
    IF logged_in THEN [pc |-> "input_op", out |-> NoOut]
    ELSE [pc |-> "done", out |-> RaiseRuntimeError("login")]

SendLoginCheck ==
    /\ m_pc = "login_check"
    /\ \E logged_in \in BOOLEAN :
          /\ login_ok' = PyBool(logged_in)
          /\ m_pc' = LoginCheckEnd(logged_in).pc
          /\ m_out' = LoginCheckEnd(logged_in).out
    /\ UNCHANGED <<cleanups, writes, m_attempt, send_successful, send_attempts, submits, phase,
                   response_started, ui_state, elapsed, response_element, response_text,
                   completion_decided>>
    /\ steps' = Begin(steps, "login_check")
    /\ UNCHANGED <<submit_tries, stale_fails, waited, lapsed_in_wait, carried_use>>
    /\ UNCHANGED <<input_attempt, last_write, earlier_shown, text_from>>
    /\ UNCHANGED sendOthers

\* safe_element_operation(optimized_input_operation): the closure never raises a
\* stale reference (_execute_send_strategy turns every exception into RuntimeError).
SendInputOp ==
    /\ m_pc = "input_op"
    /\ \E write_end \in WriteEnds :
          LET d == RetryDecision(InputOperationEnd(write_end), input_attempt, InputMaxRetries)
              r == InputOpEnd(d)
          IN  /\ writes' = writes + r.wrote
              /\ m_pc' = r.pc
              /\ m_out' = r.out
              /\ last_write' = write_end
              /\ input_attempt' = IF d = "retry" THEN input_attempt + 1 ELSE input_attempt
    /\ cleanups' = cleanups + 1
    /\ UNCHANGED <<login_ok, m_attempt, send_successful, send_attempts, submits, phase,
                   response_started, ui_state, elapsed, response_element, response_text,
                   completion_decided>>
    /\ steps' = steps \o InputSteps
    /\ UNCHANGED <<submit_tries, stale_fails, waited, lapsed_in_wait, carried_use>>
    /\ UNCHANGED <<earlier_shown, text_from>>
    /\ UNCHANGED sendOthers

\* One pass of the wrapper's loop around send_operation (max_retries = 2), and the
\* `except StaleElementReferenceException` around the wrapper.
SendInvoke ==
    /\ m_pc = "send_op"
    /\ \E button \in ButtonFinds, click \in ClickEnds, enter \in EnterEnds :
          LET r == SendOperation(send_successful, send_attempts, button, click, enter)
              d == RetryDecision(r.end, m_attempt, SendMaxRetries)
          IN  /\ send_successful' = r.successful
              /\ send_attempts' = r.attempts
              /\ submits' = submits + r.submit
              /\ submit_tries' = submit_tries + r.tried
              /\ stale_fails' = stale_fails + (IF r.tried = 1 /\ r.end = "stale" THEN 1 ELSE 0)
              /\ CASE d = "return" -> m_pc' = "wait_start" /\ UNCHANGED m_out
                   [] d = "retry" -> m_pc' = "send_sleep" /\ UNCHANGED m_out
                   [] d = "raise_last" ->
                        IF r.successful
                        THEN m_pc' = "wait_start" /\ UNCHANGED m_out
                        ELSE m_pc' = "done" /\ m_out' = RaiseRuntimeError("other")
                   [] OTHER -> /\ m_pc' = "done"
                               /\ \E inner \in OtherTypes : m_out' = Raise("other", inner)
    /\ UNCHANGED <<login_ok, cleanups, writes, m_attempt, phase, response_started, ui_state, elapsed,
                   response_element, response_text, completion_decided>>
    /\ steps' = Begin(steps, "submit")
    /\ UNCHANGED <<waited, lapsed_in_wait, carried_use>>
    /\ UNCHANGED <<input_attempt, last_write, earlier_shown, text_from>>
    /\ UNCHANGED sendOthers

\* time.sleep(retry_delay); continue
SendSleep ==
    /\ m_pc = "send_sleep"
    /\ m_attempt' = m_attempt + 1
    /\ m_pc' = "send_op"
    /\ UNCHANGED <<login_ok, cleanups, writes, send_successful, send_attempts, submits, phase,
                   response_started, ui_state, elapsed, response_element, response_text,
                   completion_decided, m_out>>
    /\ UNCHANGED <<submit_tries, stale_fails, steps, waited, lapsed_in_wait, carried_use>>
    /\ UNCHANGED <<input_attempt, last_write, earlier_shown, text_from>>
    /\ UNCHANGED sendOthers

\* One entry of wait_phases: WebDriverWait(...).until(ResponseStarted) returns or
\* times out; after the last entry without a start the snapshot is taken.
SendWaitPhase ==
    /\ m_pc = "wait_start"
    /\ phase < Len(wait_phases)
    /\ \E started \in BOOLEAN :
          /\ response_started' = started
          /\ m_pc' = WaitPhaseEnd(started, phase)
    /\ phase' = phase + 1
    /\ UNCHANGED <<login_ok, cleanups, writes, m_attempt, send_successful, send_attempts, submits, ui_state,
                   elapsed, response_element, response_text, completion_decided, m_out>>
    /\ waited' = Append(waited, wait_phases[phase + 1])
    /\ steps' = Begin(steps, "start_detect")
    /\ UNCHANGED <<submit_tries, stale_fails, lapsed_in_wait, carried_use>>
    /\ UNCHANGED <<input_attempt, last_write, earlier_shown, text_from>>
    /\ UNCHANGED sendOthers

\* `if not response_started`: _analyze_ui_state() and the RuntimeError built from it.
SendStartTimeout ==
    /\ m_pc = "analyze"
    /\ ~response_started
    /\ ui_state' = AnalyzeUiState(DriverAttrs)
    /\ m_out' = RaiseRuntimeError("start_timeout")
    /\ m_pc' = "done"
    /\ UNCHANGED <<login_ok, cleanups, writes, m_attempt, send_successful, send_attempts, submits, phase,
                   response_started, elapsed, response_element, response_text,
                   completion_decided>>
    /\ UNCHANGED <<submit_tries, stale_fails, steps, waited, lapsed_in_wait, carried_use>>
    /\ UNCHANGED <<input_attempt, last_write, earlier_shown, text_from>>
    /\ UNCHANGED sendOthers

\* One pass of `while time.time() - response_start_time < max_response_wait`.
SendPoll ==
    /\ m_pc = "poll"
    /\ elapsed < max_response_wait
    /\ \E found \in 0 .. MaxTextLen, stop \in StopChecks, check \in BOOLEAN,
          idle \in BOOLEAN, check2 \in BOOLEAN, rk \in ReadKinds, rt \in 0 .. MaxTextLen,
          lapses \in BOOLEAN, from \in {"current", "earlier"} :
          /\ Drawn(stop, check, idle, check2, rk, rt)
          /\ from \in TextOrigins(earlier_shown, found)
          /\ text_from' = IF found # 0 THEN from ELSE text_from
          /\ LET r == PollIteration(response_element, response_text, found, stop, check,
                                    idle, check2, rk, rt)
             IN  /\ response_element' = r.element
                 /\ carried_use' = (carried_use \/ UsesCarriedHandle(response_element, found, stop))
                 /\ lapsed_in_wait' = (lapsed_in_wait \/ lapses)
                 /\ response_text' = r.text
                 /\ CASE r.end = "break" ->
                           /\ completion_decided' = TRUE
                           /\ m_pc' = "after_loop"
                           /\ UNCHANGED m_out
                      [] r.end = "raise" ->
                           /\ m_pc' = "done"
                           /\ \E inner \in OtherTypes : m_out' = Raise("other", inner)
                           /\ UNCHANGED completion_decided
                      [] OTHER ->
                           /\ m_pc' = "poll"
                           /\ UNCHANGED <<completion_decided, m_out>>
    /\ elapsed' = Tick(elapsed)
    /\ UNCHANGED <<login_ok, cleanups, writes, m_attempt, send_successful, send_attempts, submits, phase,
                   response_started, ui_state>>
    /\ steps' = Begin(steps, "completion")
    /\ UNCHANGED <<submit_tries, stale_fails, waited>>
    /\ UNCHANGED <<input_attempt, last_write, earlier_shown>>
    /\ UNCHANGED sendOthers

\* The loop condition is false: max_response_wait seconds have passed.
SendCeiling ==
    /\ m_pc = "poll"
    /\ ~(elapsed < max_response_wait)
    /\ m_pc' = "after_loop"
    /\ UNCHANGED <<login_ok, cleanups, writes, m_attempt, send_successful, send_attempts, submits, phase,
                   response_started, ui_state, elapsed, response_element, response_text,
                   completion_decided, m_out>>
    /\ UNCHANGED <<submit_tries, stale_fails, steps, waited, lapsed_in_wait, carried_use>>
    /\ UNCHANGED <<input_attempt, last_write, earlier_shown, text_from>>
    /\ UNCHANGED sendOthers

\* After the loop, however it was left: the text is returned if there is an element
\* and a text; otherwise the login check picks the RuntimeError.
SendAfterLoop ==
    /\ m_pc = "after_loop"
    /\ IF response_element # "None" /\ response_text # 0
       THEN m_out' = ReturnText(response_text)
       ELSE \E logged_in \in AfterLoopLogin(lapsed_in_wait) :
               m_out' = RaiseRuntimeError(IF logged_in THEN "not_found" ELSE "login")
    /\ m_pc' = "done"
    /\ UNCHANGED <<login_ok, cleanups, writes, m_attempt, send_successful, send_attempts, submits, phase,
                   response_started, ui_state, elapsed, response_element, response_text,
                   completion_decided>>
    /\ UNCHANGED <<submit_tries, stale_fails, steps, waited, lapsed_in_wait, carried_use>>
    /\ UNCHANGED <<input_attempt, last_write, earlier_shown, text_from>>
    /\ UNCHANGED sendOthers

NextSend ==
    \/ SendLoginCheck
    \/ SendInputOp
    \/ SendInvoke
    \/ SendSleep
    \/ SendWaitPhase
    \/ SendStartTimeout
    \/ SendPoll
    \/ SendCeiling
    \/ SendAfterLoop

(***************************************************************************)
(* ChatGPTDriver._select_send_strategy                                     *)
(***************************************************************************)

\* The longest message length that is explored.
MaxLength == 4002

DefaultSafeLimit == 150
SingleLimit == 4000

\* The values of settings.safe_send_limit that are explored.
SafeLimits == {0, 100, DefaultSafeLimit, SingleLimit + 1}

\* Mutant: the comparisons are strict.
SelectSendStrategyStrict(length, safe_limit) ==
    IF length < safe_limit THEN "safe_single"
    ELSE IF length < SingleLimit THEN "try_single_fallback_chunk"
    ELSE "smart_chunking"

\* _select_send_strategy with safe_limit = settings.safe_send_limit.
SelectSendStrategy(length, safe_limit) ==
    IF length <= safe_limit THEN "safe_single"
    ELSE IF length <= SingleLimit THEN "try_single_fallback_chunk"
    ELSE "smart_chunking"

InitStrategyOff ==
    /\ s_pc = "off"
    /\ message_length = 0
    /\ safe_send_limit = DefaultSafeLimit
    /\ strategy = "none"

InitStrategy ==
    /\ s_pc = "select"
    /\ message_length \in 0 .. MaxLength
    /\ safe_send_limit \in SafeLimits
    /\ strategy = "none"

\* The call returns.
StrategySelect ==
    /\ s_pc = "select"
    /\ strategy' = SelectSendStrategy(message_length, safe_send_limit)
    /\ s_pc' = "done"
    /\ UNCHANGED <<message_length, safe_send_limit>>
    /\ UNCHANGED strategyOthers

NextStrategy == StrategySelect

(***************************************************************************)
(* Concurrent requests: the coroutine create_chat_completion of the route  *)
(* on the single event loop that uvicorn.run starts                        *)
(***************************************************************************)

\* Number of requests that arrive concurrently.
NumCallers == 3

Callers == 1 .. NumCallers

\* The positions of the route's coroutine at which it awaits: its body calls the
\* synchronous service without any await, so there is none.
AwaitPoints == {}

\* Mutant: the coroutine can be suspended anywhere (as a handler run on threads is).
CanSwitchAnywhere(pc) == TRUE

\* The event loop switches away from a started task only where it awaits.
CanSwitch(pc) == pc \in AwaitPoints

\* The tasks the loop has started and that have not finished.
Started == {c \in Callers : e_pc[c] \notin {"queued", "done"}}

InitLoopOff ==
    /\ e_pc = <<>>
    /\ e_out = <<>>

InitLoop ==
    /\ e_pc = [c \in Callers |-> "queued"]
    /\ e_out = [c \in Callers |-> "none"]

\* The loop starts the task of a request: the coroutine runs up to the service call.
LoopRun(c) ==
    /\ e_pc # <<>>
    /\ e_pc[c] = "queued"
    /\ \A t \in Started : CanSwitch(e_pc[t])
    /\ e_pc' = [e_pc EXCEPT ![c] = "handler"]
    /\ UNCHANGED e_out
    /\ UNCHANGED loopOthers

\* The service finds the session inactive and cannot start it: no send_message.
LoopNoSession(c) ==
    /\ e_pc # <<>>
    /\ e_pc[c] = "handler"
    /\ e_pc' = [e_pc EXCEPT ![c] = "returned"]
    /\ e_out' = [e_out EXCEPT ![c] = "no_response"]
    /\ UNCHANGED loopOthers

\* send_message passes its login check and touches the input surface.
LoopInput(c) ==
    /\ e_pc # <<>>
    /\ e_pc[c] = "handler"
    /\ e_pc' = [e_pc EXCEPT ![c] = "input"]
    /\ UNCHANGED e_out
    /\ UNCHANGED loopOthers

\* send_message goes on: the submit, then the wait for the response.
LoopAdvance(c) ==
    /\ e_pc # <<>>
    /\ e_pc[c] \in {"input", "submit"}
    /\ e_pc' = [e_pc EXCEPT ![c] = IF e_pc[c] = "input" THEN "submit" ELSE "wait"]
    /\ UNCHANGED e_out
    /\ UNCHANGED loopOthers

\* send_message raises from where it is.
LoopRaise(c) ==
    /\ e_pc # <<>>
    /\ e_pc[c] \in {"handler", "input", "submit", "wait"}
    /\ e_pc' = [e_pc EXCEPT ![c] = "returned"]
    /\ e_out' = [e_out EXCEPT ![c] = "error"]
    /\ UNCHANGED loopOthers

\* send_message returns the response text.
LoopReturn(c) ==
    /\ e_pc # <<>>
    /\ e_pc[c] = "wait"
    /\ e_pc' = [e_pc EXCEPT ![c] = "returned"]
    /\ e_out' = [e_out EXCEPT ![c] = "text"]
    /\ UNCHANGED loopOthers

\* The coroutine returns or raises its answer: the task is finished.
LoopAnswer(c) ==
    /\ e_pc # <<>>
    /\ e_pc[c] = "returned"
    /\ e_pc' = [e_pc EXCEPT ![c] = "done"]
    /\ UNCHANGED e_out
    /\ UNCHANGED loopOthers

NextLoop ==
    \/ \E c \in Callers : LoopRun(c)
    \/ \E c \in Callers : LoopNoSession(c)
    \/ \E c \in Callers : LoopInput(c)
    \/ \E c \in Callers : LoopAdvance(c)
    \/ \E c \in Callers : LoopRaise(c)
    \/ \E c \in Callers : LoopReturn(c)
    \/ \E c \in Callers : LoopAnswer(c)

(***************************************************************************)
(* The session operations: start_session, close_session, is_session_active *)
(***************************************************************************)

\* Number of session operations in a run.
MaxOps == 6

InitSessionOff ==
    /\ q_pc = "off"
    /\ q_op = "none"
    /\ q_result = "none"
    /\ instance = "None"
    /\ get_calls = 0
    /\ q_steps = 0
    /\ q_last_start = "none"

\* After ChatGPTDriver.__init__ (the driver fields are those of InitServiceOff).
InitSession ==
    /\ q_pc = "idle"
    /\ q_op = "none"
    /\ q_result = "none"
    /\ instance = "None"
    /\ get_calls = 0
    /\ q_steps = 0
    /\ q_last_start = "none"

\* The outcomes start_session can have when get_instance gave a wrapper whose driver
\* is drv: without a driver only the else branch, with one the three others.
OutcomesWith(drv) ==
    IF drv = "None" THEN {"no_driver"} ELSE {"page_raises", "not_logged_in", "ok"}

\* The drivers a newly constructed SeleniumWrapper can have: setup_webdriver
\* returns a connected driver or None.
NewDrivers == {"None", "session"}

SessionStep(op, result) ==
    /\ q_op' = op
    /\ q_result' = result
    /\ q_steps' = q_steps + 1
    /\ q_last_start' = IF op = "start" THEN result
                       ELSE IF op = "close" THEN "closed"
                       ELSE q_last_start
    /\ UNCHANGED q_pc

\* start_session(): one call of SeleniumWrapper.get_instance, which returns the
\* existing singleton or constructs one, or raises; then the rest of the function.
SessStart ==
    /\ q_pc = "idle"
    /\ q_steps < MaxOps
    /\ \/ /\ instance = "None"
          /\ LET d == StartSession(DriverFields, "get_instance_raises", "None")
             IN  /\ selenium_wrapper' = d.selenium_wrapper
                 /\ wait' = d.wait
                 /\ session_active' = d.session_active
                 /\ wrapper_driver' = d.wrapper_driver
          /\ UNCHANGED instance
          /\ SessionStep("start", "False")
       \/ \E drv \in IF instance = "None" THEN NewDrivers ELSE {wrapper_driver} :
             \E outcome \in OutcomesWith(drv) :
                LET d == StartSession(DriverFields, outcome, drv)
                IN  /\ selenium_wrapper' = d.selenium_wrapper
                    /\ wait' = d.wait
                    /\ session_active' = d.session_active
                    /\ wrapper_driver' = d.wrapper_driver
                    /\ instance' = "wrapper"
                    /\ SessionStep("start", PyBool(outcome = "ok"))
    /\ get_calls' = 1
    /\ UNCHANGED sessionOthers

\* close_session()
SessClose ==
    /\ q_pc = "idle"
    /\ q_steps < MaxOps
    /\ LET d == CloseSession(DriverFields)
       IN  /\ selenium_wrapper' = d.selenium_wrapper
           /\ wait' = d.wait
           /\ session_active' = d.session_active
           /\ wrapper_driver' = d.wrapper_driver
    /\ SessionStep("close", "none")
    /\ UNCHANGED <<instance, get_calls>>
    /\ UNCHANGED sessionOthers

\* is_session_active()
SessIsActive ==
    /\ q_pc = "idle"
    /\ q_steps < MaxOps
    /\ SessionStep("is_active",
                   PyBool(IsSessionActive(session_active, selenium_wrapper, wrapper_driver)))
    /\ UNCHANGED <<instance, get_calls>>
    /\ UNCHANGED driverVars
    /\ UNCHANGED sessionOthers

\* SeleniumWrapper.close_instance(): the singleton quits its driver and is dropped;
\* a wrapper the ChatGPTDriver still holds is that object, now without a driver.
SessInstanceClosed ==
    /\ q_pc = "idle"
    /\ q_steps < MaxOps
    /\ instance = "wrapper"
    /\ instance' = "None"
    /\ wrapper_driver' = "None"
    /\ SessionStep("none", "none")
    /\ UNCHANGED <<selenium_wrapper, wait, session_active, get_calls>>
    /\ UNCHANGED sessionOthers

NextSession ==
    \/ SessStart
    \/ SessClose
    \/ SessIsActive
    \/ SessInstanceClosed

(***************************************************************************)
(* The except clause of send_message and _collect_exception_details        *)
(***************************************************************************)

\* Longest str(exception) explored, in tokens.
MaxTokens == 2

\* The tokens of a message: white space, the two incomplete Selenium messages,
\* the word that marks a login failure, and any other text.
Tokens == {" ", "Message:", "Message", "ログイン", "x"}

ExceptionTypes == {"TimeoutException", "StaleElementReferenceException", "RuntimeError"}

\* The msg attribute: absent, or a text (possibly empty).
SeleniumMsgs ==
    {[has |-> FALSE, text |-> <<>>], [has |-> TRUE, text |-> <<>>],
     [has |-> TRUE, text |-> <<"x">>]}

\* What the traceback can show.
Stacks == {{}, {"until", "lambda"}, {"until", "ResponseStarted", "_check_response_started"}}

\* str.strip()
RECURSIVE Strip(_)
Strip(t) ==
    IF t = <<>> THEN t
    ELSE IF Head(t) = " " THEN Strip(Tail(t))
    ELSE IF t[Len(t)] = " " THEN Strip(SubSeq(t, 1, Len(t) - 1))
    ELSE t

\* `not exception_message or exception_message in ['Message:', 'Message', '']`
Incomplete(m) == m = <<>> \/ m = <<"Message:">> \/ m = <<"Message">>

SeleniumSuffix(sel, lead) ==
    IF sel.has /\ Strip(sel.text) # <<>> THEN <<lead>> \o Strip(sel.text) ELSE <<>>

StackSuffix(names) ==
    (IF "until" \in names
     THEN IF "ResponseStarted" \in names THEN <<" during ResponseStarted condition check">>
          ELSE IF "lambda" \in names THEN <<" during lambda condition check">>
          ELSE <<" during condition check">>
     ELSE <<>>)
    \o (IF "_check_response_started" \in names
        THEN <<" while waiting for ChatGPT response to start">> ELSE <<>>)

\* The TimeoutException block of lines 678-705.
TimeoutMessage(m, sel, names) ==
    IF Incomplete(m)
    THEN <<"TimeoutException", ": WebDriverWait operation timed out">>
             \o SeleniumSuffix(sel, " - Selenium msg: ") \o StackSuffix(names)
    ELSE <<"TimeoutException", ": ">> \o m

\* Mutant: the message of the exception is passed on as it is.
CollectMessagePlain(type, text, sel, names) == Strip(text)

\* error_details['message'] when the try block of _collect_exception_details
\* runs through.
CollectMessage(type, text, sel, names) ==
    LET m0 == Strip(text)
        m1 == IF type = "TimeoutException" THEN TimeoutMessage(m0, sel, names) ELSE m0
    IN  IF Incomplete(m1)
        THEN <<"Empty or incomplete message from ", type>> \o SeleniumSuffix(sel, " (Selenium: ")
        ELSE m1

\* error_details['message'] when the try block raises detail_error.
CollectFailed(detail_error) == <<"Exception detail collection failed: ">> \o detail_error

\* Lines 416-419: the message of the RuntimeError raised; the first token of the
\* else branch stands for the fixed Japanese prefix of line 419.
RaisedMessage(text, details) ==
    IF \E i \in 1 .. Len(text) : text[i] = "ログイン" THEN text
    ELSE <<"error while sending the message: ">> \o details

InitDetailsOff ==
    /\ d_pc = "off"
    /\ exc_type = "none"
    /\ exc_text = <<>>
    /\ selenium_msg = [has |-> FALSE, text |-> <<>>]
    /\ stack = {}
    /\ collect_fails = FALSE
    /\ details_message = <<>>
    /\ raised_message = <<>>

InitDetails ==
    /\ d_pc = "collect"
    /\ exc_type \in ExceptionTypes
    /\ exc_text \in SeqsUpTo(Tokens, MaxTokens)
    /\ selenium_msg \in SeleniumMsgs
    /\ stack \in Stacks
    /\ collect_fails \in BOOLEAN
    /\ details_message = <<>>
    /\ raised_message = <<>>

\* error_details = self._collect_exception_details(e)
DetailsCollect ==
    /\ d_pc = "collect"
    /\ IF collect_fails
       THEN \E detail_error \in {<<>>, <<"x">>} :
               details_message' = CollectFailed(detail_error)
       ELSE details_message' = CollectMessage(exc_type, exc_text, selenium_msg, stack)
    /\ d_pc' = "raise"
    /\ UNCHANGED <<exc_type, exc_text, selenium_msg, stack, collect_fails, raised_message>>
    /\ UNCHANGED detailsOthers

\* The RuntimeError is raised.
DetailsRaise ==
    /\ d_pc = "raise"
    /\ raised_message' = RaisedMessage(exc_text, details_message)
    /\ d_pc' = "done"
    /\ UNCHANGED <<exc_type, exc_text, selenium_msg, stack, collect_fails, details_message>>
    /\ UNCHANGED detailsOthers

NextDetails ==
    \/ DetailsCollect
    \/ DetailsRaise

(***************************************************************************)
(* ChatGPTDriver._execute_send_strategy                                    *)
(***************************************************************************)

\* The longest message that is explored.
MaxExecLen == 2

\* The strategy argument: the three names _select_send_strategy returns and one
\* that it does not.
Strategies == {"safe_single", "try_single_fallback_chunk", "smart_chunking", "unknown"}

\* How _send_message_with_smart_chunking can end.
ChunkingEnds == {"ok", "raises"}

Call(op, text, end) == [op |-> op, text |-> text, end |-> end]

\* Mutant: a failed single write is not followed by smart chunking.
AfterSingleWriteNoFallback(st, end) ==
    IF end = "ok" THEN "done" ELSE "raised"

\* Where the function goes after input_element.send_keys(message): the inner
\* `except Exception` of try_single_fallback_chunk calls smart chunking; in the
\* other branches the exception reaches the outer `except Exception`, which raises
\* RuntimeError.
AfterSingleWrite(st, end) ==
    IF end = "ok" THEN "done"
    ELSE IF st = "try_single_fallback_chunk" THEN "chunking"
    ELSE "raised"

\* Where the function goes after _send_message_with_smart_chunking.
AfterChunking(end) == IF end = "ok" THEN "done" ELSE "raised"

InitExecOff ==
    /\ x_pc = "off"
    /\ x_strategy = "none"
    /\ x_message = <<>>
    /\ x_calls = <<>>

InitExec ==
    /\ x_pc = "start"
    /\ x_strategy \in Strategies
    /\ x_message \in SeqsUpTo(Chars, MaxExecLen)
    /\ x_calls = <<>>

\* The branches safe_single, try_single_fallback_chunk and the default one begin
\* with input_element.send_keys(message).
ExecSingleWrite ==
    /\ x_pc = "start"
    /\ x_strategy # "smart_chunking"
    /\ \E end \in WriteEnds :
          /\ x_calls' = Append(x_calls, Call("send_keys", x_message, end))
          /\ x_pc' = AfterSingleWrite(x_strategy, end)
    /\ UNCHANGED <<x_strategy, x_message>>
    /\ UNCHANGED execOthers

\* self._send_message_with_smart_chunking(input_element, message): the fallback of
\* try_single_fallback_chunk, or the branch smart_chunking.
ExecSmartChunking ==
    /\ \/ x_pc = "chunking"
       \/ x_pc = "start" /\ x_strategy = "smart_chunking"
    /\ \E end \in ChunkingEnds :
          /\ x_calls' = Append(x_calls, Call("smart_chunking", x_message, end))
          /\ x_pc' = AfterChunking(end)
    /\ UNCHANGED <<x_strategy, x_message>>
    /\ UNCHANGED execOthers

NextExec ==
    \/ ExecSingleWrite
    \/ ExecSmartChunking

(***************************************************************************)
(* ChatGPTDriver._enhanced_cleanup                                         *)
(***************************************************************************)

\* The longest content of the input element that is explored.
MaxInputLen == 2

\* The characters of the content: a blank and a letter.
InputChars == {" ", "P"}

\* What an operation on the input element does.
OpEnds == {"ok", "raises"}

\* What get_attribute('value') gives: None when the element has no such attribute.
NoAttr == [is_none |-> TRUE, text |-> <<>>]
Attr(text) == [is_none |-> FALSE, text |-> text]

\* What the function has returned.
NotReturned == [returned |-> FALSE, text |-> <<>>]
Returns(text) == [returned |-> TRUE, text |-> text]

\* `input_element.get_attribute('value') or input_element.text`
CurrentText(attr, text) == IF attr.is_none \/ attr.text = <<>> THEN text ELSE attr.text

\* `current_text.strip() if current_text else ""`
ResidualData(current) == IF current = <<>> THEN <<>> ELSE Strip(current)

\* `if residual_data:`
NeedsForcedClear(current) == ResidualData(current) # <<>>

InitCleanupOff ==
    /\ u_pc = "off"
    /\ u_value = NoAttr
    /\ u_text = <<>>
    /\ u_ops = <<>>
    /\ u_residual = <<>>
    /\ u_result = NotReturned

InitCleanup ==
    /\ u_pc = "clear"
    /\ u_value \in {Attr(t) : t \in SeqsUpTo(InputChars, MaxInputLen)} \cup {NoAttr}
    /\ u_text \in SeqsUpTo(InputChars, MaxInputLen)
    /\ u_ops = <<>>
    /\ u_residual = <<>>
    /\ u_result = NotReturned

\* input_element.clear() and the settle delay; an exception ends in `return ""`.
CleanupClear ==
    /\ u_pc = "clear"
    /\ \E end \in OpEnds :
          IF end = "ok"
          THEN /\ u_ops' = u_ops \o <<"clear", "sleep">>
               /\ u_pc' = "read"
               /\ UNCHANGED u_result
          ELSE /\ u_ops' = Append(u_ops, "clear")
               /\ u_pc' = "done"
               /\ u_result' = Returns(<<>>)
    /\ UNCHANGED <<u_value, u_text, u_residual>>
    /\ UNCHANGED cleanupOthers

\* The re-read, residual_data and `if residual_data`; without a residual `return ""`.
CleanupRead ==
    /\ u_pc = "read"
    /\ \E end \in OpEnds :
          IF end = "ok"
          THEN LET current == CurrentText(u_value, u_text)
               IN  /\ u_residual' = ResidualData(current)
                   /\ IF NeedsForcedClear(current)
                      THEN u_pc' = "forced" /\ UNCHANGED u_result
                      ELSE u_pc' = "done" /\ u_result' = Returns(<<>>)
          ELSE /\ u_pc' = "done"
               /\ u_result' = Returns(<<>>)
               /\ UNCHANGED u_residual
    /\ u_ops' = Append(u_ops, "read")
    /\ UNCHANGED <<u_value, u_text>>
    /\ UNCHANGED cleanupOthers

\* send_keys(Keys.CONTROL + "a"), send_keys(Keys.DELETE) and `return residual_data`;
\* an exception of either send_keys ends in `return ""`.
CleanupForcedClear ==
    /\ u_pc = "forced"
    /\ \E select \in OpEnds, delete \in OpEnds :
          /\ u_ops' = IF select = "ok" THEN u_ops \o <<"select_all", "delete">>
                      ELSE Append(u_ops, "select_all")
          /\ u_result' = Returns(IF select = "ok" /\ delete = "ok" THEN u_residual ELSE <<>>)
    /\ u_pc' = "done"
    /\ UNCHANGED <<u_value, u_text, u_residual>>
    /\ UNCHANGED cleanupOthers

NextCleanup ==
    \/ CleanupClear
    \/ CleanupRead
    \/ CleanupForcedClear

(***************************************************************************)
(* SeleniumWrapper.get_instance and close_instance under cls._lock         *)
(***************************************************************************)

\* The number of threads that call the two class methods.
NumThreads == 2
\* The number of calls that are explored.
MaxCalls == 4

Threads == 1 .. NumThreads

\* Mutant: the class methods without `with cls._lock`.
CanAcquireNoLock(holder) == TRUE

\* threading.Lock: `with cls._lock` is entered when nobody holds the lock.
CanAcquire(holder) == holder = 0

InitSingletonOff ==
    /\ g_pc = <<>>
    /\ g_lock = 0
    /\ g_instance = 0
    /\ g_live = {}
    /\ g_made = 0
    /\ g_closes = 0
    /\ g_gots = {}
    /\ g_calls = 0

InitSingleton ==
    /\ g_pc = [t \in Threads |-> "idle"]
    /\ g_lock = 0
    /\ g_instance = 0
    /\ g_live = {}
    /\ g_made = 0
    /\ g_closes = 0
    /\ g_gots = {}
    /\ g_calls = 0

\* A thread calls get_instance or close_instance and comes to `with cls._lock`.
SingletonCall(t) ==
    /\ g_pc # <<>>
    /\ g_pc[t] = "idle"
    /\ g_calls < MaxCalls
    /\ \E op \in {"get_lock", "close_lock"} : g_pc' = [g_pc EXCEPT ![t] = op]
    /\ g_calls' = g_calls + 1
    /\ UNCHANGED <<g_lock, g_instance, g_live, g_made, g_closes, g_gots>>
    /\ UNCHANGED singletonOthers

\* `with cls._lock:` of either method.
SingletonAcquire(t) ==
    /\ g_pc # <<>>
    /\ g_pc[t] \in {"get_lock", "close_lock"}
    /\ CanAcquire(g_lock)
    /\ g_lock' = t
    /\ g_pc' = [g_pc EXCEPT ![t] = IF g_pc[t] = "get_lock" THEN "get_check" ELSE "close_check"]
    /\ UNCHANGED <<g_instance, g_live, g_made, g_closes, g_gots, g_calls>>
    /\ UNCHANGED singletonOthers

\* `if cls._instance is None:`
GetCheck(t) ==
    /\ g_pc # <<>>
    /\ g_pc[t] = "get_check"
    /\ g_pc' = [g_pc EXCEPT ![t] = IF g_instance = 0 THEN "get_construct" ELSE "get_return"]
    /\ UNCHANGED <<g_lock, g_instance, g_live, g_made, g_closes, g_gots, g_calls>>
    /\ UNCHANGED singletonOthers

\* `cls._instance = cls(...)`: the constructor returns, or it raises and the
\* exception leaves get_instance through the `with`, which releases the lock.
GetConstruct(t) ==
    /\ g_pc # <<>>
    /\ g_pc[t] = "get_construct"
    /\ \E end \in OpEnds :
          IF end = "ok"
          THEN /\ g_made' = g_made + 1
               /\ g_instance' = g_made + 1
               /\ g_live' = g_live \cup {g_made + 1}
               /\ g_pc' = [g_pc EXCEPT ![t] = "get_return"]
               /\ UNCHANGED g_lock
          ELSE /\ g_pc' = [g_pc EXCEPT ![t] = "idle"]
               /\ g_lock' = IF g_lock = t THEN 0 ELSE g_lock
               /\ UNCHANGED <<g_made, g_instance, g_live>>
    /\ UNCHANGED <<g_closes, g_gots, g_calls>>
    /\ UNCHANGED singletonOthers

\* `return cls._instance`, and the lock is released.
GetReturn(t) ==
    /\ g_pc # <<>>
    /\ g_pc[t] = "get_return"
    /\ g_gots' = g_gots \cup {[inst |-> g_instance, closes |-> g_closes]}
    /\ g_lock' = IF g_lock = t THEN 0 ELSE g_lock
    /\ g_pc' = [g_pc EXCEPT ![t] = "idle"]
    /\ UNCHANGED <<g_instance, g_live, g_made, g_closes, g_calls>>
    /\ UNCHANGED singletonOthers

\* `if cls._instance is not None:` and cls._instance.quit(...); when there is no
\* instance, or when quit raises, the method is left and the lock is released.
CloseQuit(t) ==
    /\ g_pc # <<>>
    /\ g_pc[t] = "close_check"
    /\ \E end \in OpEnds :
          IF g_instance # 0 /\ end = "ok"
          THEN /\ g_live' = g_live \ {g_instance}
               /\ g_pc' = [g_pc EXCEPT ![t] = "close_clear"]
               /\ UNCHANGED g_lock
          ELSE /\ g_pc' = [g_pc EXCEPT ![t] = "idle"]
               /\ g_lock' = IF g_lock = t THEN 0 ELSE g_lock
               /\ UNCHANGED g_live
    /\ UNCHANGED <<g_instance, g_made, g_closes, g_gots, g_calls>>
    /\ UNCHANGED singletonOthers

\* `cls._instance = None`, and the lock is released.
CloseClear(t) ==
    /\ g_pc # <<>>
    /\ g_pc[t] = "close_clear"
    /\ g_instance' = 0
    /\ g_closes' = g_closes + 1
    /\ g_lock' = IF g_lock = t THEN 0 ELSE g_lock
    /\ g_pc' = [g_pc EXCEPT ![t] = "idle"]
    /\ UNCHANGED <<g_live, g_made, g_gots, g_calls>>
    /\ UNCHANGED singletonOthers

NextSingleton ==
    \/ \E t \in Threads : SingletonCall(t)
    \/ \E t \in Threads : SingletonAcquire(t)
    \/ \E t \in Threads : GetCheck(t)
    \/ \E t \in Threads : GetConstruct(t)
    \/ \E t \in Threads : GetReturn(t)
    \/ \E t \in Threads : CloseQuit(t)
    \/ \E t \in Threads : CloseClear(t)

(***************************************************************************)
(* generate_streaming_response                                             *)
(***************************************************************************)

\* The longest content that is explored.
MaxContentLen == 41

\* chunk_size = 20
chunk_size == 20

\* The contents: the character at position j is written j, so that every character
\* of a content is different.
Contents == {[j \in 1 .. n |-> j] : n \in 0 .. MaxContentLen}

Min(a, b) == IF a <= b THEN a ELSE b

\* content[i:i + chunk_size] for the 0-based i of the code.
Slice(text, i) == SubSeq(text, i + 1, Min(i + chunk_size, Len(text)))

\* chunk_data of the loop: "delta" is {"content": chunk_content} unless the chunk is
\* the last one, when it is {} and finish_reason is "stop".
ChunkData(chunk_content, is_last_chunk) ==
    [kind |-> "chunk",
     has_content |-> ~is_last_chunk,
     content |-> IF is_last_chunk THEN <<>> ELSE chunk_content,
     finish_reason |-> IF is_last_chunk THEN "stop" ELSE "None"]

\* final_chunk: an empty delta and finish_reason "stop".
FinalChunk == [kind |-> "chunk", has_content |-> FALSE, content |-> <<>>, finish_reason |-> "stop"]

\* "data: [DONE]"
DoneMarker == [kind |-> "done", has_content |-> FALSE, content |-> <<>>, finish_reason |-> "None"]

InitStreamOff ==
    /\ y_pc = "off"
    /\ content = <<>>
    /\ y_i = 0
    /\ events = <<>>

InitStream ==
    /\ y_pc = "loop"
    /\ content \in Contents
    /\ y_i = 0
    /\ events = <<>>

\* One pass of `for i in range(0, len(content), chunk_size)`.
StreamChunk ==
    /\ y_pc = "loop"
    /\ y_i < Len(content)
    /\ events' = Append(events, ChunkData(Slice(content, y_i), y_i + chunk_size >= Len(content)))
    /\ y_i' = y_i + chunk_size
    /\ UNCHANGED <<y_pc, content>>
    /\ UNCHANGED streamOthers

\* The range is exhausted: final_chunk is yielded.
StreamFinal ==
    /\ y_pc = "loop"
    /\ y_i >= Len(content)
    /\ events' = Append(events, FinalChunk)
    /\ y_pc' = "marker"
    /\ UNCHANGED <<content, y_i>>
    /\ UNCHANGED streamOthers

\* yield "data: [DONE]\n\n"
StreamDone ==
    /\ y_pc = "marker"
    /\ events' = Append(events, DoneMarker)
    /\ y_pc' = "done"
    /\ UNCHANGED <<content, y_i>>
    /\ UNCHANGED streamOthers

NextStream ==
    \/ StreamChunk
    \/ StreamFinal
    \/ StreamDone

(***************************************************************************)
(* ChatGPTDriver._check_login_status                                       *)
(***************************************************************************)

\* The number of selectors in login_indicators and in chatgpt_indicators.
NumLoginIndicators == 5
NumChatIndicators == 4

\* What the probe of one indicator does: an element of it is displayed; none is
\* found or none is displayed; find_elements or is_displayed raises (`except:
\* continue`).
ProbeEnds == {"displayed", "absent", "raises"}

\* A loop over indicators returns at the first one that is found displayed.
FoundDisplayed(probes) == \E i \in 1 .. Len(probes) : probes[i] = "displayed"

\* Mutant: the chat-interface indicators are probed before the login indicators.
CheckLoginStatusChatFirst(driver_ok, login, chat) ==
    IF ~driver_ok THEN FALSE
    ELSE IF FoundDisplayed(chat) THEN TRUE
    ELSE FALSE

\* _check_login_status(): the outer except returns False; then the login indicators,
\* then the chat-interface indicators, then `return False`.
CheckLoginStatus(driver_ok, login, chat) ==
    IF ~driver_ok THEN FALSE
    ELSE IF FoundDisplayed(login) THEN FALSE
    ELSE IF FoundDisplayed(chat) THEN TRUE
    ELSE FALSE

InitLoginOff ==
    /\ l_pc = "off"
    /\ l_driver_ok = FALSE
    /\ login_probes = <<>>
    /\ chat_probes = <<>>
    /\ l_result = "none"

InitLogin ==
    /\ l_pc = "check"
    /\ l_driver_ok \in BOOLEAN
    /\ login_probes \in [1 .. NumLoginIndicators -> ProbeEnds]
    /\ chat_probes \in [1 .. NumChatIndicators -> ProbeEnds]
    /\ l_result = "none"

LoginCheckRun ==
    /\ l_pc = "check"
    /\ l_result' = PyBool(CheckLoginStatus(l_driver_ok, login_probes, chat_probes))
    /\ l_pc' = "done"
    /\ UNCHANGED <<l_driver_ok, login_probes, chat_probes>>
    /\ UNCHANGED loginOthers

NextLogin == LoginCheckRun

(***************************************************************************)
(* The specifications: one component runs, the others stay off.            *)
(***************************************************************************)

InitSpecRetry == InitRetry /\ InitCompleteOff /\ InitChunkOff /\ InitServiceOff /\ InitSendOff /\ InitStrategyOff /\ InitLoopOff /\ InitSessionOff /\ InitDetailsOff
        /\ InitExecOff /\ InitCleanupOff /\ InitSingletonOff /\ InitStreamOff /\ InitLoginOff

SpecRetry == InitSpecRetry /\ [][NextRetry]_vars

InitSpecComplete == InitComplete /\ InitRetryOff /\ InitChunkOff /\ InitServiceOff /\ InitSendOff /\ InitStrategyOff /\ InitLoopOff /\ InitSessionOff /\ InitDetailsOff
        /\ InitExecOff /\ InitCleanupOff /\ InitSingletonOff /\ InitStreamOff /\ InitLoginOff

SpecComplete == InitSpecComplete /\ [][NextComplete]_vars

InitSpecChunk == InitChunk /\ InitRetryOff /\ InitCompleteOff /\ InitServiceOff /\ InitSendOff /\ InitStrategyOff /\ InitLoopOff /\ InitSessionOff /\ InitDetailsOff
        /\ InitExecOff /\ InitCleanupOff /\ InitSingletonOff /\ InitStreamOff /\ InitLoginOff

SpecChunk == InitSpecChunk /\ [][NextChunk]_vars

InitSpecService == InitService /\ InitRetryOff /\ InitCompleteOff /\ InitChunkOff /\ InitSendOff /\ InitStrategyOff /\ InitLoopOff /\ InitSessionOff /\ InitDetailsOff
        /\ InitExecOff /\ InitCleanupOff /\ InitSingletonOff /\ InitStreamOff /\ InitLoginOff

SpecService == InitSpecService /\ [][NextService]_vars

InitSpecSend == InitSend /\ InitRetryOff /\ InitCompleteOff /\ InitChunkOff /\ InitServiceOff /\ InitStrategyOff /\ InitLoopOff /\ InitSessionOff /\ InitDetailsOff
        /\ InitExecOff /\ InitCleanupOff /\ InitSingletonOff /\ InitStreamOff /\ InitLoginOff

SpecSend == InitSpecSend /\ [][NextSend]_vars

\* send_message runs on: the thread that called it executes its next statement.
SpecSendLive == InitSpecSend /\ [][NextSend]_vars /\ WF_vars(NextSend)

InitSpecStrategy ==
    InitStrategy /\ InitRetryOff /\ InitCompleteOff /\ InitChunkOff /\ InitServiceOff /\ InitSendOff
        /\ InitLoopOff /\ InitSessionOff /\ InitDetailsOff
        /\ InitExecOff /\ InitCleanupOff /\ InitSingletonOff /\ InitStreamOff /\ InitLoginOff

SpecStrategy == InitSpecStrategy /\ [][NextStrategy]_vars

InitSpecLoop ==
    InitLoop /\ InitRetryOff /\ InitCompleteOff /\ InitChunkOff /\ InitServiceOff /\ InitSendOff
        /\ InitStrategyOff /\ InitSessionOff /\ InitDetailsOff
        /\ InitExecOff /\ InitCleanupOff /\ InitSingletonOff /\ InitStreamOff /\ InitLoginOff

SpecLoop == InitSpecLoop /\ [][NextLoop]_vars

InitSpecSession ==
    InitSession /\ InitRetryOff /\ InitCompleteOff /\ InitChunkOff /\ InitServiceOff /\ InitSendOff
        /\ InitStrategyOff /\ InitLoopOff /\ InitDetailsOff
        /\ InitExecOff /\ InitCleanupOff /\ InitSingletonOff /\ InitStreamOff /\ InitLoginOff

SpecSession == InitSpecSession /\ [][NextSession]_vars

InitSpecDetails ==
    InitDetails /\ InitRetryOff /\ InitCompleteOff /\ InitChunkOff /\ InitServiceOff /\ InitSendOff
        /\ InitStrategyOff /\ InitLoopOff /\ InitSessionOff
        /\ InitExecOff /\ InitCleanupOff /\ InitSingletonOff /\ InitStreamOff /\ InitLoginOff

SpecDetails == InitSpecDetails /\ [][NextDetails]_vars

InitSpecExec ==
    InitExec /\ InitRetryOff /\ InitCompleteOff /\ InitChunkOff /\ InitServiceOff /\ InitSendOff
        /\ InitStrategyOff /\ InitLoopOff /\ InitSessionOff /\ InitDetailsOff
        /\ InitCleanupOff /\ InitSingletonOff /\ InitStreamOff /\ InitLoginOff

SpecExec == InitSpecExec /\ [][NextExec]_vars

InitSpecCleanup ==
    InitCleanup /\ InitRetryOff /\ InitCompleteOff /\ InitChunkOff /\ InitServiceOff /\ InitSendOff
        /\ InitStrategyOff /\ InitLoopOff /\ InitSessionOff /\ InitDetailsOff
        /\ InitExecOff /\ InitSingletonOff /\ InitStreamOff /\ InitLoginOff

SpecCleanup == InitSpecCleanup /\ [][NextCleanup]_vars

InitSpecSingleton ==
    InitSingleton /\ InitRetryOff /\ InitCompleteOff /\ InitChunkOff /\ InitServiceOff /\ InitSendOff
        /\ InitStrategyOff /\ InitLoopOff /\ InitSessionOff /\ InitDetailsOff
        /\ InitExecOff /\ InitCleanupOff /\ InitStreamOff /\ InitLoginOff

SpecSingleton == InitSpecSingleton /\ [][NextSingleton]_vars

InitSpecStream ==
    InitStream /\ InitRetryOff /\ InitCompleteOff /\ InitChunkOff /\ InitServiceOff /\ InitSendOff
        /\ InitStrategyOff /\ InitLoopOff /\ InitSessionOff /\ InitDetailsOff
        /\ InitExecOff /\ InitCleanupOff /\ InitSingletonOff /\ InitLoginOff

SpecStream == InitSpecStream /\ [][NextStream]_vars

InitSpecLogin ==
    InitLogin /\ InitRetryOff /\ InitCompleteOff /\ InitChunkOff /\ InitServiceOff /\ InitSendOff
        /\ InitStrategyOff /\ InitLoopOff /\ InitSessionOff /\ InitDetailsOff
        /\ InitExecOff /\ InitCleanupOff /\ InitSingletonOff /\ InitStreamOff

SpecLogin == InitSpecLogin /\ [][NextLogin]_vars

(***************************************************************************)
(* Claims about safe_element_operation                                     *)
(***************************************************************************)

WrapperDone == w_pc \in {"returned", "raised"}

\* The stub raises a stale-reference failure exactly Len(script) times and then succeeds.
StaleThenOk == \A n \in 1 .. Len(script) : script[n] = "stale"

\* C2: for max_retries >= 0 and a stub that raises a stale-reference failure exactly
\* k times and then succeeds, the wrapper returns the stub's value after exactly k+1
\* invocations when max_retries >= k, and otherwise invokes the stub exactly
\* max_retries+1 times and re-raises the stale-reference failure it caught last,
\* unmodified.
C2_RetryBudget ==
    (WrapperDone /\ max_retries >= 0 /\ StaleThenOk) =>
        LET k == Len(script)
        IN  IF max_retries >= k
            THEN /\ w_pc = "returned"
                 /\ calls = k + 1
                 /\ w_out = [kind |-> "value", id |-> value]
            ELSE /\ w_pc = "raised"
                 /\ calls = max_retries + 1
                 /\ w_out = Exc("stale", calls)

\* C2 witness: a run that exhausted a positive retry budget on stale failures.
C2_Witness ==
    /\ w_pc = "raised" /\ StaleThenOk
    /\ max_retries >= 1 /\ Len(script) > max_retries
    /\ calls = max_retries + 1

\* C3: a failure that is not a stale-reference failure propagates on its first
\* occurrence: the invocation that raised it is the last one, the wrapper raises that
\* very failure, and the only sleeps are those of the stale failures before it.
C3_OtherPropagates ==
    \A n \in 1 .. calls :
        OpOutcome(n) = "other" =>
            /\ w_pc = "raised"
            /\ calls = n
            /\ w_out = Exc("other", n)
            /\ sleeps = n - 1

\* C3 witness: a non-stale failure raised after at least one stale retry.
C3_Witness ==
    /\ w_pc = "raised" /\ calls >= 2
    /\ OpOutcome(calls) = "other"
    /\ max_retries > calls

(***************************************************************************)
(* Claims about _is_response_complete                                      *)
(***************************************************************************)

CompleteReturned(r) == c_pc = "done" /\ c_result = r

\* The number of samples of the window that read exactly the text t.
RECURSIVE CountEqual(_, _)
CountEqual(ss, t) ==
    IF ss = <<>> THEN 0
    ELSE (IF Head(ss) = t THEN 1 ELSE 0) + CountEqual(Tail(ss), t)

\* C6: _is_response_complete never returns True when the observed response text
\* (the text last read, held in initial_text) is shorter than 20 characters, whatever
\* the samples are and whether or not the element becomes stale during the window.
C6_ShortNeverComplete ==
    CompleteReturned("True") => initial_text.len >= MinResponseLen

\* C7: whenever _is_response_complete returns True, that call observed the stop
\* control not displayed-and-enabled and observed no streaming indicator displayed.
C7_CompleteImpliesNotBusy ==
    CompleteReturned("True") => (stop_probe = "inactive" /\ stream_probe # "active")

\* C8 as stated: with no busy indicator seen active and a response text of at least
\* 20 characters, if at least 70% of the 4 samples read exactly the initially
\* observed text, _is_response_complete returns True.
C8_SeventyPercentOfSamples ==
    ( /\ c_pc = "done"
      /\ stop_probe # "active" /\ stream_probe \in {"inactive", "error"}
      /\ c_response_text.len >= MinResponseLen
      /\ Len(samples) = stability_checks
      /\ CountEqual(samples, c_response_text) * 10 >= stability_checks * StabilityTenths )
    => c_result = "True"

\* C8 as amended: with no busy indicator seen active and a response text of at least
\* 20 characters, if every one of the 4 samples reads exactly the initially observed
\* text, _is_response_complete returns True.
C8_AllSamplesStable ==
    ( /\ c_pc = "done"
      /\ stop_probe # "active" /\ stream_probe \in {"inactive", "error"}
      /\ c_response_text.len >= MinResponseLen
      /\ Len(samples) = stability_checks
      /\ CountEqual(samples, c_response_text) = stability_checks )
    => c_result = "True"

\* C8 witness: a text of 20 characters read unchanged in all 4 samples, no indicator active.
C8_Witness ==
    /\ c_pc = "done" /\ c_result = "True"
    /\ stop_probe = "inactive" /\ stream_probe = "inactive"
    /\ c_response_text.len >= MinResponseLen
    /\ Len(samples) = stability_checks
    /\ CountEqual(samples, c_response_text) = stability_checks

(***************************************************************************)
(* Claims about smart chunking                                             *)
(***************************************************************************)

\* The chunks put back together in order, each joined to the one before it by the
\* separator of the boundary at which it was split off.
RECURSIVE Reassemble(_)
Reassemble(cs) ==
    IF cs = <<>> THEN <<>>
    ELSE IF Len(cs) = 1 THEN cs[1].text
    ELSE LET n == Len(cs)
         IN  Reassemble(SubSeq(cs, 1, n - 1))
                \o (IF cs[n].boundary = "paragraph" THEN ParaSep ELSE SentSep)
                \o cs[n].text

\* C10: smart chunking is lossless: the emitted chunks, reassembled in order with the
\* separators at which they were split, are the original message, for every message.
C10_ChunkingLossless ==
    k_pc \in {"send", "wait", "done"} => Reassemble(chunks) = message

(***************************************************************************)
(* Claims about the service and the API boundary                           *)
(***************************************************************************)

\* The exchange failed: driver.send_message raised or yielded no text.
ExchangeFailed == send_result.kind \in {"raise", "empty"}

\* C5: whenever the exchange fails during a chat-completion request, with or without
\* functions or tools, the caller gets an error: the service returns no response
\* object and the route does not answer 200.
C5_FailureSurfacesAsError ==
    (h_pc = "done" /\ ExchangeFailed) => (svc_out.kind # "response" /\ http_status # 200)

(***************************************************************************)
(* Claims about send_message                                               *)
(***************************************************************************)

\* C1: once a submit has been dispatched and recorded as successful, no step of the
\* exchange dispatches another one and at most one submit is recorded in all; and
\* an invocation of send_operation made with success recorded returns without a
\* click or an Enter, whatever the document does.
C1_NoSubmitAfterSuccess ==
    [][ /\ send_successful => submits' = submits
        /\ submits' <= 1
        /\ \A button \in ButtonFinds, click \in ClickEnds, enter \in EnterEnds :
              LET r == SendOperation(TRUE, send_attempts, button, click, enter)
              IN  r.submit = 0 /\ r.end = "ok" /\ r.successful ]_vars

\* Success was recorded on the second invocation, after a stale-reference failure
\* of the first, and the exchange went on.
C1_Witness ==
    /\ send_successful
    /\ send_attempts = 2
    /\ m_attempt = 1
    /\ submits = 1
    /\ m_pc = "poll"

\* C4: send_message returns response text only for an exchange whose completion
\* was decided; when the 600 s ceiling passes without a decision it raises.
C4_ReturnOnlyWhenDecided ==
    (m_pc = "done" /\ m_out.kind = "return") => completion_decided

\* C9: the failure raised when no phase saw the response start carries a snapshot
\* with the document-ready state, the input availability and the submit-control state.
C9_StartTimeoutSnapshot ==
    (m_pc = "done" /\ m_out.what = "start_timeout")
        => {"page_loaded", "input_available", "send_button_state"} \subseteq ui_state

(***************************************************************************)
(* Further claims about smart chunking and the send strategy               *)
(***************************************************************************)

\* C11: every chunk that smart chunking emits is at most the maximum chunk size
\* long, for every message.
C11_ChunkWithinSize ==
    k_pc \in {"send", "wait", "done"}
        => \A j \in 1 .. Len(chunks) : Len(chunks[j].text) <= ChunkSize

\* The strategies in the order of the bands.
StrategyRank(st) ==
    CASE st = "safe_single" -> 1
      [] st = "try_single_fallback_chunk" -> 2
      [] OTHER -> 3

\* C12: the strategy returned is the one of the band the length lies in, the first
\* band ending at the configured safe_send_limit (150 by default) and the second at
\* 4000, and a longer message never gets a strategy of an earlier band.
C12_StrategyBands ==
    s_pc = "done" =>
        /\ (strategy = "safe_single") = (message_length <= safe_send_limit)
        /\ (strategy = "smart_chunking")
              = (message_length > safe_send_limit /\ message_length > SingleLimit)
        /\ safe_send_limit = DefaultSafeLimit =>
              /\ message_length \in 0 .. 150 => strategy = "safe_single"
              /\ message_length \in 151 .. 4000 => strategy = "try_single_fallback_chunk"
              /\ message_length > 4000 => strategy = "smart_chunking"
        /\ StrategyRank(strategy)
              <= StrategyRank(SelectSendStrategy(message_length + 1, safe_send_limit))
        /\ message_length > 0 =>
              StrategyRank(SelectSendStrategy(message_length - 1, safe_send_limit))
                  <= StrategyRank(strategy)

\* A message one character over the second threshold got smart chunking under the
\* default configuration.
C12_Witness ==
    /\ s_pc = "done"
    /\ safe_send_limit = DefaultSafeLimit
    /\ message_length = SingleLimit + 1
    /\ strategy = "smart_chunking"

(***************************************************************************)
(* Claims about concurrent requests and the session                        *)
(***************************************************************************)

\* The exchanges in flight: send_message has touched the input surface and has not
\* returned or raised yet.
InFlight == {c \in DOMAIN e_pc : e_pc[c] \in {"input", "submit", "wait"}}

\* C13: at most one exchange is in flight at any time, for any number of
\* concurrent requests to the route.
C13_OneExchangeInFlight == Cardinality(InFlight) <= 1

\* One request is waiting for its response while another is queued and a third
\* has already been answered.
C13_Witness ==
    /\ e_pc # <<>>
    /\ \E a, b, c \in DOMAIN e_pc :
          e_pc[a] = "wait" /\ e_pc[b] = "queued" /\ e_pc[c] = "done" /\ e_out[c] = "text"

\* The last step was a call of op.
Called(op) == q_op' = op /\ q_steps' = q_steps + 1

\* The driver holds a wrapper whose WebDriver carries a session identifier.
HandleWithSession == selenium_wrapper # "None" /\ wrapper_driver = "session"

C15_FailedStartReleases ==
    (q_op = "start" /\ q_result = "False") =>
        /\ get_calls = 1
        /\ selenium_wrapper = "None"
        /\ wait = "None"
        /\ ~IsSessionActive(session_active, selenium_wrapper, wrapper_driver)

\* C16: after close_session the driver holds no handle and is_session_active() is
\* false, and the call leaves the singleton and its WebDriver as they were.
C16_CloseDropsHandleOnly ==
    [][ Called("close") =>
          /\ selenium_wrapper' = "None"
          /\ ~IsSessionActive(session_active', selenium_wrapper', wrapper_driver')
          /\ instance' = instance
          /\ wrapper_driver' = wrapper_driver ]_vars

\* close_session was called on an active session: the handle is gone and the
\* singleton still has its connected WebDriver.
C16_Witness ==
    /\ q_op = "close"
    /\ selenium_wrapper = "None"
    /\ ~session_active
    /\ instance = "wrapper"
    /\ wrapper_driver = "session"

(***************************************************************************)
(* Further claims about the service, the API boundary and send_message     *)
(***************************************************************************)

SessionActiveNow == IsSessionActive(session_active, selenium_wrapper, wrapper_driver)

\* C17: the request checks the session first; an active session means no
\* start_session call, an inactive one exactly one call, and if the session is
\* inactive after that call the request ends with no response and send_message is
\* never called.
C17_LivenessFirst ==
    [][ /\ h_pc = "session_check" =>
              IF SessionActiveNow
              THEN start_calls' = 0 /\ h_pc' = "dispatch"
              ELSE /\ start_calls' = 1
                   /\ IF SessionActiveNow'
                      THEN h_pc' = "dispatch"
                      ELSE h_pc' = "api" /\ svc_out' = ReturnedNone
        /\ h_pc # "session_check" => start_calls' = start_calls
        /\ send_result' # NoSend => SessionActiveNow' ]_vars

\* A request found the session inactive, started it once without success and was
\* answered with the server-failure status without an exchange.
C17_Witness ==
    /\ h_pc = "done"
    /\ start_calls = 1
    /\ ~SessionActiveNow
    /\ send_result = NoSend
    /\ http_status = 500

\* C18: a login failure of the exchange is answered with status 401, and a
\* response-start timeout or an unknown failure with status 500.
C18_FailureStatus ==
    (h_pc = "done" /\ send_result.kind = "raise") =>
        /\ send_result.what = "login" => http_status = 401
        /\ send_result.what \in {"start_timeout", "other"} => http_status = 500

\* C19: when the login check at the start of send_message reports logged-out, the
\* exchange ends with a RuntimeError about the login and without any cleanup, text
\* write or submit.
C19_LoggedOutTouchesNothing ==
    login_ok = "False" =>
        /\ m_pc = "done"
        /\ m_out = RaiseRuntimeError("login")
        /\ cleanups = 0
        /\ writes = 0
        /\ submits = 0

\* The login check reported logged-out and send_message has raised.
C19_Witness ==
    /\ login_ok = "False"
    /\ m_pc = "done"
    /\ m_out.kind = "raise"

\* C20: the RuntimeError that send_message raises has a non-empty message, and so
\* has the message that _collect_exception_details returns: one that names the
\* type of the failure when the failure's own message is blank or only "Message:",
\* and the collection-failed message when the collection itself raises.
C20_MessageNeverEmpty ==
    d_pc = "done" =>
        /\ raised_message # <<>>
        /\ details_message # <<>>
        /\ Strip(details_message) = details_message
        /\ (~collect_fails /\ Incomplete(Strip(exc_text))) =>
              \E i \in 1 .. Len(details_message) : details_message[i] = exc_type
        /\ collect_fails => Head(details_message) = "Exception detail collection failed: "

\* A stale-reference failure whose message is only "Message:" followed by white
\* space was raised on as a RuntimeError.
C20_Witness ==
    /\ d_pc = "done"
    /\ exc_type = "StaleElementReferenceException"
    /\ exc_text = <<"Message:", " ">>
    /\ ~collect_fails
    /\ Len(raised_message) > 1


\* The positions of send_message after the submit step: the start detection, the
\* snapshot, the completion loop and the statements after it.
WaitPcs == {"wait_start", "analyze", "poll", "after_loop"}

\* C25: when every submit attempt of the exchange failed with a stale reference and
\* send_successful was never set, send_message has raised and has not gone on to
\* wait for a response.
C25_ExhaustedSubmitRaises ==
    (/\ submit_tries >= 1
     /\ stale_fails = submit_tries
     /\ ~send_successful
     /\ m_pc \notin {"send_op", "send_sleep"})
       => (m_pc = "done" /\ m_out.kind = "raise" /\ phase = 0)

\* C26: the submit action is attempted at most 2 times in an exchange, whatever the
\* stale references: the wrapper runs send_operation with max_retries of at most 2
\* and the closure stops trying after max_send_attempts invocations.
C26_SubmitAtMostTwice ==
    /\ submit_tries <= 2
    /\ submits <= submit_tries
    /\ SendMaxRetries <= 2
    /\ m_attempt <= SendMaxRetries
    /\ send_attempts <= SendMaxRetries + 1

\* C26 witness: two attempts failed stale and the wrapper invoked the closure a third
\* time, which did not attempt the submit again.
C26_Witness ==
    /\ submit_tries = 2
    /\ stale_fails = 2
    /\ m_attempt = SendMaxRetries
    /\ send_attempts = 3

IsPrefix(a, b) == Len(a) <= Len(b) /\ a = SubSeq(b, 1, Len(a))

\* C27: the steps of send_message begin in the order login check, cleanup, strategy
\* selection, write, submit, start detection, completion detection; after a failed
\* write no submit is attempted; the start detection and the completion loop run
\* only when the submit step is over.
C27_StepsInOrder ==
    /\ IsPrefix(steps, StepNames)
    /\ (cleanups >= 1 /\ writes = 0) =>
          (m_pc = "done" /\ submit_tries = 0 /\ submits = 0 /\ send_attempts = 0)
    /\ (waited # <<>> \/ elapsed > 0 \/ m_pc \in WaitPcs) =>
          (/\ m_pc \notin {"login_check", "input_op", "send_op", "send_sleep"}
           /\ IsPrefix(<<"login_check", "cleanup", "select", "write", "submit">>, steps)
           /\ writes = 1)

\* C27 witness: an exchange that went through every step and returned a text.
C27_Witness ==
    /\ m_pc = "done"
    /\ m_out.kind = "return"
    /\ steps = StepNames

\* C29: no pass of the completion loop uses, for check_completion or for
\* get_current_text, a response element that an earlier pass acquired.
C29_HandleAcquiredInTick == ~carried_use

\* C30: the start detection waits 3 s, then 7 s, then 15 s; a start signal ends it
\* and no later phase runs; a phase that timed out is followed by the next one; the
\* start-timeout failure is raised only when the three phases are exhausted.
C30_PhasesInOrder ==
    /\ wait_phases = <<3, 7, 15>>
    /\ Len(waited) = phase
    /\ IsPrefix(waited, wait_phases)
    /\ response_started => m_pc \notin {"wait_start", "analyze"}
    /\ (m_pc = "wait_start" /\ waited # <<>>) => Len(waited) < Len(wait_phases)
    /\ m_pc = "analyze" => (waited = wait_phases /\ ~response_started)
    /\ m_out.what = "start_timeout" => (waited = wait_phases /\ ~response_started)
    /\ (m_pc \in {"poll", "after_loop"} \/ elapsed > 0) => response_started

\* C30 witness: the first phase timed out, the second one saw the start signal, and
\* the completion loop runs without the third phase.
C30_Witness ==
    /\ waited = <<3, 7>>
    /\ response_started
    /\ m_pc = "poll"

\* C23: an exchange during whose completion wait the login session ended finishes
\* with the authentication-required failure, not with a returned text and not with
\* a failure of the wait.
C23_LapseRaisesAuth ==
    (m_pc = "done" /\ lapsed_in_wait /\ m_out.what # "other")
       => (m_out.kind = "raise" /\ m_out.what = "login")


\* C28: smart chunking writes the chunks in their order; the wait before every
\* chunk but the first ended with the stop button seen gone, so that no chunk is
\* written while the button is still displayed and enabled; there is no wait after
\* the last chunk.
C28_ChunksWaitForIdle ==
    /\ Len(written) <= Len(chunks)
    /\ \A j \in 1 .. Len(written) : written[j] = chunks[j].text
    /\ Len(k_waits) <= Len(written)
    /\ (k_pc = "done" /\ chunks # <<>>) => Len(k_waits) = Len(chunks) - 1
    /\ \A j \in 2 .. Len(written) : k_waits[j - 1] = "gone"

\* C21: with try_single_fallback_chunk the first write is one send_keys of the whole
\* message; when it raised, smart chunking is called exactly once with the same
\* message; when it returned, smart chunking is not called.
C21_FallbackOnce ==
    (x_strategy = "try_single_fallback_chunk" /\ x_pc \in {"chunking", "done", "raised"})
       => /\ x_calls # <<>>
          /\ x_calls[1].op = "send_keys"
          /\ x_calls[1].text = x_message
          /\ x_calls[1].end = "ok" => (x_calls = <<Call("send_keys", x_message, "ok")>> /\ x_pc = "done")
          /\ (x_calls[1].end # "ok" /\ x_pc = "chunking") => Len(x_calls) = 1
          /\ (x_calls[1].end # "ok" /\ x_pc \in {"done", "raised"}) =>
                (/\ Len(x_calls) = 2
                 /\ x_calls[2].op = "smart_chunking"
                 /\ x_calls[2].text = x_message)

\* C21 witness: the single write raised a stale reference and the fallback wrote
\* the message.
C21_Witness ==
    /\ x_strategy = "try_single_fallback_chunk"
    /\ x_pc = "done"
    /\ x_message # <<>>
    /\ x_calls = <<Call("send_keys", x_message, "stale"), Call("smart_chunking", x_message, "ok")>>

Issued(op) == \E i \in 1 .. Len(u_ops) : u_ops[i] = op

\* C22: _enhanced_cleanup clears, waits and re-reads; when the re-read value is not
\* empty after stripping it issues select-all and delete and returns that residual
\* text; when nothing is residual it issues no forced clear and returns "".
C22_CleanupReportsResidual ==
    u_pc = "done" =>
       /\ (Issued("read") => SubSeq(u_ops, 1, 3) = <<"clear", "sleep", "read">>)
       /\ (u_residual # <<>>) =>
             (Issued("select_all") /\ Issued("delete") /\ u_result = Returns(u_residual))
       /\ (u_residual = <<>>) =>
             (~Issued("select_all") /\ ~Issued("delete") /\ u_result = Returns(<<>>))

\* C24: at most one SeleniumWrapper instance is alive at a time, it is the one that
\* _instance holds, and the get_instance calls that return between the same two
\* closes return the same instance.
C24_OneInstance ==
    /\ Cardinality(g_live) <= 1
    /\ g_instance # 0 => g_live \subseteq {g_instance}
    /\ \A a \in g_gots : a.inst # 0
    /\ \A a, b \in g_gots : a.closes = b.closes => a.inst = b.inst

\* C24 witness: an instance was handed out and closed, a thread is constructing the
\* second one inside the lock while another thread waits for the lock.
C24_Witness ==
    /\ [inst |-> 1, closes |-> 0] \in g_gots
    /\ g_closes = 1
    /\ g_made = 2
    /\ \E t, u \in Threads :
          /\ t # u
          /\ g_lock = t
          /\ g_pc[t] = "get_return"
          /\ g_pc[u] = "get_lock"


\* C31: every send_message call terminates: it reaches its return or its raise; the
\* retry wrappers, the start detection and the completion loop stay within their
\* budgets, and every pass of the completion loop that goes round again has slept.
C31_Terminates ==
    /\ <>(m_pc = "done")
    /\ [](/\ input_attempt <= InputMaxRetries
          /\ m_attempt <= SendMaxRetries
          /\ phase <= Len(wait_phases)
          /\ elapsed < max_response_wait + TickSeconds)
    /\ [][(m_pc = "poll" /\ m_pc' = "poll") => elapsed' > elapsed]_vars

\* C31 witness: the completion loop was left because the 600 s ceiling was reached,
\* and send_message ended.
C31_Witness ==
    /\ m_pc = "done"
    /\ elapsed >= max_response_wait
    /\ ~completion_decided

\* C35: the text send_message returns was read from the response to the current
\* exchange, not from the response of an earlier exchange that the document shows.
C35_ReturnsOwnResponse ==
    (m_pc = "done" /\ m_out.kind = "return") => text_from = "current"

\* C37: the cleanup-and-write step runs at most once in an exchange: the wrapper
\* never retries optimized_input_operation, and a failed write, a stale reference
\* included, ends the exchange with a RuntimeError.
C37_WriteStepOnce ==
    /\ cleanups <= 1
    /\ writes <= cleanups
    /\ input_attempt = 0
    /\ last_write \notin {"none", "ok"} =>
          (m_pc = "done" /\ m_out.kind = "raise" /\ m_out.type = "RuntimeError")

\* C37 witness: the write raised a stale reference and the exchange ended after one
\* cleanup.
C37_Witness ==
    /\ last_write = "stale"
    /\ cleanups = 1
    /\ m_pc = "done"

\* C38: send_message ends with a non-empty text returned or with a RuntimeError
\* raised, whatever the type of the exception that was raised inside it.
C38_TextOrRuntimeError ==
    /\ m_pc # "done" => m_out = NoOut
    /\ m_pc = "done" =>
          \/ m_out.kind = "return" /\ m_out.type = "str" /\ m_out.text > 0
          \/ m_out.kind = "raise" /\ m_out.type = "RuntimeError"

\* C38 witness: an AttributeError was raised inside send_message and the call ended.
C38_Witness ==
    /\ m_pc = "done"
    /\ m_out.kind = "raise"
    /\ m_out.inner = "AttributeError"


RECURSIVE Flatten(_)
Flatten(ss) == IF ss = <<>> THEN <<>> ELSE Head(ss) \o Flatten(Tail(ss))

\* C36: the characters that smart chunking writes to the input, chunk after chunk,
\* are the characters of the message: no separator at a chunk boundary is dropped.
C36_WrittenIsMessage ==
    k_pc = "done" => Flatten(written) = message

\* C34: is_session_active() is true only if the last start_session returned True and
\* close_session has not run since; a new driver is inactive; a driver whose
\* _session_active is False is inactive whatever handle it holds.
C34_ActiveOnlyAfterStart ==
    /\ IsSessionActive(session_active, selenium_wrapper, wrapper_driver)
          => q_last_start = "True"
    /\ q_steps = 0 => ~IsSessionActive(session_active, selenium_wrapper, wrapper_driver)
    /\ ~session_active => ~IsSessionActive(session_active, selenium_wrapper, wrapper_driver)


RECURSIVE DeltaContents(_)
DeltaContents(es) == IF es = <<>> THEN <<>> ELSE Head(es).content \o DeltaContents(Tail(es))

\* C32: the delta contents of the chunks that generate_streaming_response yields,
\* concatenated in order, are the content; the stream ends with a chunk whose
\* finish_reason is "stop" followed by the only [DONE] marker.
C32_StreamLossless ==
    y_pc = "done" =>
       /\ DeltaContents(events) = content
       /\ Len(events) >= 2
       /\ events[Len(events)] = DoneMarker
       /\ events[Len(events) - 1].finish_reason = "stop"
       /\ \A j \in 1 .. Len(events) - 1 : events[j].kind = "chunk"

\* C33: _check_login_status returns False whenever a login indicator is found
\* displayed, True only when none is and a chat-interface indicator is found
\* displayed, and False when nothing is found or the check fails.
C33_LoginStatus ==
    l_pc = "done" =>
       LET login_found == \E i \in 1 .. NumLoginIndicators : login_probes[i] = "displayed"
           chat_found == \E i \in 1 .. NumChatIndicators : chat_probes[i] = "displayed"
       IN  /\ l_result \in {"True", "False"}
           /\ login_found => l_result = "False"
           /\ l_result = "True" => (l_driver_ok /\ ~login_found /\ chat_found)
           /\ (l_driver_ok /\ ~login_found /\ chat_found) => l_result = "True"
           /\ (~login_found /\ ~chat_found) => l_result = "False"
           /\ ~l_driver_ok => l_result = "False"

\* C33 witness: a login indicator and a chat-interface indicator are both displayed,
\* the probe of another login indicator raised, and the function returned False.
C33_Witness ==
    /\ l_pc = "done"
    /\ l_driver_ok
    /\ login_probes[1] = "raises"
    /\ login_probes[2] = "displayed"
    /\ chat_probes[1] = "displayed"
    /\ l_result = "False"

====
